---- MODULE Spec2Model ----
(***************************************************************************)
(* Model of the ferret asset registry (src/common/assets.rs) and of the    *)
(* Doom map importer / builder (src/doom/map/load.rs).                     *)
(*                                                                         *)
(* Two state machines share this module:                                   *)
(*   Spec     the asset registry driven by arbitrary callers               *)
(*   SpecMap  the one-shot pipeline decode -> validate -> build_map        *)
(***************************************************************************)
EXTENDS Integers, Sequences, FiniteSets, TLC

(***************************************************************************)
(* Bounds of the registry model                                            *)
(***************************************************************************)
\* number of handle allocations explored
MaxAllocs == 2
\* nesting depth of build_waiting calls (build_func may call build_waiting)
MaxDepth == 2

\* asset types (TypeId keys of AssetStorage::storages)
Types == {"A", "B"}
\* asset names
Names == {"x", "y"}
\* the names the data source can decode; the decode step fails for the others
GoodNames == {"x"}
\* the data sources explored: one that decodes "x" only, one that decodes all
Sources == {GoodNames, Names}
\* values handed to insert / insert_with_name
Given == {<<"given", "v1">>, <<"given", "v2">>}
\* "no value" of Option<&A::Data>
NoValue == <<"none", "">>
\* "no handle" of Option<AssetHandle<A>>
NoHandle == 0
\* "no name": the owner of an allocation made by insert
NoName == ""

VARIABLES
    reg,      \* AssetStorage: handle_allocator and storages
    arcs,     \* heap of Arc<u64>: arcs[h] is the id stored in allocation h
    owner,    \* history: owner[h] = <<type, name>> the allocation h was made for
    named,    \* history: named[t, n] is what the last insert_with_name(t, n) returned
    held,     \* allocations of which some caller still holds a strong handle
    source,   \* DataSource: the names whose decode step succeeds
    stack,    \* running build_waiting calls, innermost last
    ret,      \* what the last call returned
    aborted,  \* the process panicked
    log,      \* history: what happened to each allocation, in order
    lumps,    \* the eight lumps of the level in the data source
    imported, \* what Map::import returned
    built,    \* what build_map returned
    edits,    \* number of mutations that made the level
    pc,       \* position of load_map (src/main.rs, lines 386-406)
    decoder   \* a lump decoder: its buffer and what import returned

regvars == <<reg, arcs, owner, named, held, source, stack, ret, aborted, log>>

mapvars == <<lumps, imported, built, edits, pc, decoder>>

vars == <<reg, arcs, owner, named, held, source, stack, ret, aborted, log, lumps, imported, built, edits, pc, decoder>>

(***************************************************************************)
(* AssetStorageTyped                                                       *)
(***************************************************************************)
AssetStorageTyped ==
    [assets  |-> [i \in {} |-> NoValue],
     handles |-> <<>>,
     names   |-> [n \in {} |-> NoHandle],
     unbuilt |-> <<>>]

\* FnvHashMap::get and FnvHashMap::insert
MapGet(m, k, none) == IF k \in DOMAIN m THEN m[k] ELSE none

MapInsert(m, k, v) == [j \in DOMAIN m \cup {k} |-> IF j = k THEN v ELSE m[j]]

\* AssetHandle::id
id(a, h) == a[h]

Range(s) == {s[i] : i \in 1 .. Len(s)}

\* the strong handles owned by the registry itself and by running drains
TableStrong(tab) == Range(tab.handles) \cup {e.handle : e \in Range(tab.unbuilt)}

FrameStrong(f) == {f.cur.handle} \cup {e.handle : e \in Range(f.rest)}

\* allocations with a strong count above zero
Strong(r, ext, stk) ==
    ext \cup UNION {TableStrong(r.storages[t]) : t \in DOMAIN r.storages}
        \cup UNION {FrameStrong(stk[i]) : i \in 1 .. Len(stk)}

\* an upgrade that succeeds whatever the strong count is
upgrade_always(w, live) == w

\* WeakHandle::upgrade
upgrade(w, live) == IF w # NoHandle /\ w \in live THEN w ELSE NoHandle

\* allocate without the increment of highest_id
allocate_same_id(r, a) ==
    [reg |-> r, arcs |-> Append(a, r.handle_allocator.highest_id + 1), h |-> Len(a) + 1]

\* HandleAllocator::allocate; the new allocation is Len(a) + 1
allocate(r, a) ==
    LET al == r.handle_allocator
        reuse == al.unused_ids # <<>>
        newid == IF reuse THEN al.unused_ids[Len(al.unused_ids)] ELSE al.highest_id + 1
        al2 == IF reuse
               THEN [al EXCEPT !.unused_ids = SubSeq(@, 1, Len(@) - 1)]
               ELSE [al EXCEPT !.highest_id = @ + 1]
    IN [reg |-> [r EXCEPT !.handle_allocator = al2],
        arcs |-> Append(a, newid),
        h |-> Len(a) + 1]

\* AssetStorage::get
get(r, a, t, h) == MapGet(r.storages[t].assets, id(a, h), NoValue)

\* AssetStorage::handle_for
handle_for(r, t, n, live) == upgrade(MapGet(r.storages[t].names, n, NoHandle), live)

\* AssetStorage::get_by_name
get_by_name(r, a, t, n, live) ==
    LET h == upgrade(MapGet(r.storages[t].names, n, NoHandle), live)
    IN IF h = NoHandle THEN NoValue ELSE MapGet(r.storages[t].assets, id(a, h), NoValue)

\* AssetStorage::iter
iter(r, a, t) ==
    [i \in 1 .. Len(r.storages[t].handles) |->
        <<r.storages[t].handles[i], r.storages[t].assets[id(a, r.storages[t].handles[i])]>>]

\* an insert that lists the handle without storing the value
insert_listed_only(r, a, t, v) ==
    LET al == allocate(r, a)
    IN [reg |-> [al.reg EXCEPT !.storages[t].handles = Append(@, al.h)],
        arcs |-> al.arcs, h |-> al.h]

\* AssetStorage::insert
insert(r, a, t, v) ==
    LET al == allocate(r, a)
        tab == al.reg.storages[t]
        tab2 == [tab EXCEPT !.assets = MapInsert(@, id(al.arcs, al.h), v),
                            !.handles = Append(@, al.h)]
    IN [reg |-> [al.reg EXCEPT !.storages[t] = tab2], arcs |-> al.arcs, h |-> al.h]

\* insert_with_name without the lookup of the name
insert_with_name_fresh(r, a, t, n, v, live) ==
    LET al == allocate(r, a)
        tab == al.reg.storages[t]
        tab2 == [tab EXCEPT !.assets = MapInsert(@, id(al.arcs, al.h), v),
                            !.handles = Append(@, al.h),
                            !.names = MapInsert(@, n, al.h)]
    IN [reg |-> [al.reg EXCEPT !.storages[t] = tab2], arcs |-> al.arcs, h |-> al.h]

\* insert_with_name that puts the handle it found into the iteration list
insert_with_name_listed(r, a, t, n, v, live) ==
    LET found == upgrade(MapGet(r.storages[t].names, n, NoHandle), live)
    IN IF found # NoHandle
       THEN [reg |-> [r EXCEPT !.storages[t].assets = MapInsert(@, id(a, found), v),
                               !.storages[t].handles = Append(@, found)],
             arcs |-> a, h |-> found]
       ELSE LET al == allocate(r, a)
                tab == al.reg.storages[t]
                tab2 == [tab EXCEPT !.assets = MapInsert(@, id(al.arcs, al.h), v),
                                    !.handles = Append(@, al.h),
                                    !.names = MapInsert(@, n, al.h)]
            IN [reg |-> [al.reg EXCEPT !.storages[t] = tab2], arcs |-> al.arcs, h |-> al.h]

\* AssetStorage::insert_with_name
insert_with_name(r, a, t, n, v, live) ==
    LET found == upgrade(MapGet(r.storages[t].names, n, NoHandle), live)
    IN IF found # NoHandle
       THEN [reg |-> [r EXCEPT !.storages[t].assets = MapInsert(@, id(a, found), v)],
             arcs |-> a, h |-> found]
       ELSE LET al == allocate(r, a)
                tab == al.reg.storages[t]
                tab2 == [tab EXCEPT !.assets = MapInsert(@, id(al.arcs, al.h), v),
                                    !.handles = Append(@, al.h),
                                    !.names = MapInsert(@, n, al.h)]
            IN [reg |-> [al.reg EXCEPT !.storages[t] = tab2], arcs |-> al.arcs, h |-> al.h]

\* Asset::import as seen by the registry: Ok(intermediate) or Err
import(n, src) == n \in src

\* load without the registration of the name
load_unnamed(r, a, t, n, src, live) ==
    LET al == allocate(r, a)
        tab == al.reg.storages[t]
        tab2 == [tab EXCEPT !.unbuilt = Append(@, [handle |-> al.h,
                                                   data |-> import(n, src),
                                                   name |-> n])]
    IN [reg |-> [al.reg EXCEPT !.storages[t] = tab2], arcs |-> al.arcs,
        h |-> al.h, decoded |-> TRUE]

\* AssetStorage::load
load(r, a, t, n, src, live) ==
    LET found == upgrade(MapGet(r.storages[t].names, n, NoHandle), live)
    IN IF found # NoHandle
       THEN [reg |-> r, arcs |-> a, h |-> found, decoded |-> FALSE]
       ELSE LET al == allocate(r, a)
                tab == al.reg.storages[t]
                tab2 == [tab EXCEPT !.names = MapInsert(@, n, al.h),
                                    !.unbuilt = Append(@, [handle |-> al.h,
                                                           data |-> import(n, src),
                                                           name |-> n])]
            IN [reg |-> [al.reg EXCEPT !.storages[t] = tab2], arcs |-> al.arcs,
                h |-> al.h, decoded |-> TRUE]

\* add_storage that keeps the table of a type that has one
add_storage_keep(r, t) ==
    [r EXCEPT !.storages = [u \in DOMAIN r.storages \cup {t} |->
                               IF u \in DOMAIN r.storages THEN r.storages[u]
                               ELSE AssetStorageTyped]]

\* AssetStorage::add_storage
add_storage(r, t) ==
    [r EXCEPT !.storages = [u \in DOMAIN r.storages \cup {t} |->
                               IF u = t THEN AssetStorageTyped ELSE r.storages[u]]]

\* build_waiting, lines 143-154: entries whose decode failed are logged and
\* skipped; the drain stops at the first entry that build_func is called for
FirstOk_any(q) == IF q = <<>> THEN 0 ELSE 1

FirstOk(q) ==
    IF \E i \in 1 .. Len(q) : q[i].data
    THEN CHOOSE i \in 1 .. Len(q) : q[i].data /\ \A j \in 1 .. (i - 1) : ~q[j].data
    ELSE 0

advance_stop(stk, t, q, batch) ==
    IF q = <<>> \/ ~q[1].data
    THEN stk
    ELSE Append(stk, [t |-> t, cur |-> q[1], rest |-> Tail(q), batch |-> batch])

advance(stk, t, q, batch) ==
    IF FirstOk(q) = 0
    THEN stk
    ELSE Append(stk, [t |-> t, cur |-> q[FirstOk(q)],
                      rest |-> SubSeq(q, FirstOk(q) + 1, Len(q)),
                      batch |-> batch])

\* history of the loop over q that took the running calls from stk to stk2:
\* the entries it left behind without a call of build_func, then the entry
\* it calls build_func for, if it pushed one
DrainEvents(q, stk, stk2) ==
    [k \in 1 .. (IF Len(stk2) > Len(stk) THEN Len(q) - Len(stk2[Len(stk2)].rest) ELSE Len(q)) |->
        [h |-> q[k].handle,
         what |-> IF Len(stk2) > Len(stk) /\ k = Len(q) - Len(stk2[Len(stk2)].rest)
                  THEN "call" ELSE "skip"]]

\* the value build_func makes of an intermediate
Built(n) == <<"built", n>>

(***************************************************************************)
(* Lump decoders (src/doom/map/load.rs).  A lump is held as the sequence   *)
(* of its records, each field with the value read from the buffer.         *)
(***************************************************************************)
\* Option::None / Option::Some of an index or of a name
None == [some |-> FALSE, v |-> 0]

Some(x) == [some |-> TRUE, v |-> x]

NoTexName == [some |-> FALSE, v |-> ""]

\* the 8-byte name field: "-" padded with zero bytes is no texture
decode_name(raw) == IF raw = "-" THEN NoTexName ELSE [some |-> TRUE, v |-> raw]

\* a 16-bit index field: 0xFFFF is no reference
decode_index(raw) == IF raw = 65535 THEN None ELSE Some(raw)

\* a GL vertex reference: bit 15 selects the GL vertex array
decode_vertex(raw) ==
    IF raw >= 32768 THEN [gl |-> TRUE, v |-> raw - 32768] ELSE [gl |-> FALSE, v |-> raw]

\* a node child reference: bit 15 selects a subsector
decode_child(raw) ==
    IF raw >= 32768 THEN [leaf |-> TRUE, v |-> raw - 32768] ELSE [leaf |-> FALSE, v |-> raw]

\* the linedef side of a seg: 0 is Side::Right (0), anything else Side::Left (1)
decode_side(raw) == IF raw = 0 THEN 0 ELSE 1

\* LinedefsFormat::import
LinedefData(rec) ==
    [vertex_indices |-> <<rec.v1, rec.v2>>,
     sidedef_indices |-> <<decode_index(rec.side0), decode_index(rec.side1)>>]

\* SidedefsFormat::import
SidedefData(rec) ==
    [top_texture_name |-> decode_name(rec.top),
     bottom_texture_name |-> decode_name(rec.bottom),
     middle_texture_name |-> decode_name(rec.middle),
     sector_index |-> rec.sector]

\* SectorsFormat::import
SectorData(rec) ==
    [floor_flat_name |-> decode_name(rec.floor),
     ceiling_flat_name |-> decode_name(rec.ceiling),
     special_type |-> rec.special,
     sector_tag |-> rec.tag]

\* GLSegsFormat::import
GLSegData(rec) ==
    [vertex_indices |-> <<decode_vertex(rec.v1), decode_vertex(rec.v2)>>,
     linedef_index |-> decode_index(rec.linedef),
     linedef_side |-> decode_side(rec.side),
     partner_seg_index |-> decode_index(rec.partner)]

\* GLSSectFormat::import
GLSSectData(rec) == [seg_count |-> rec.count, first_seg_index |-> rec.first]

\* GLNodesFormat::import
GLNodeData(rec) ==
    [partition |-> rec.partition,
     child_indices |-> <<decode_child(rec.child0), decode_child(rec.child1)>>]

\* Map::import, lines 40-50: the eight lumps of a level
Decode(l) ==
    [linedefs |-> [k \in 1 .. Len(l.linedefs) |-> LinedefData(l.linedefs[k])],
     sidedefs |-> [k \in 1 .. Len(l.sidedefs) |-> SidedefData(l.sidedefs[k])],
     vertexes |-> l.vertexes,
     sectors  |-> [k \in 1 .. Len(l.sectors) |-> SectorData(l.sectors[k])],
     gl_vert  |-> l.gl_vert,
     gl_segs  |-> [k \in 1 .. Len(l.gl_segs) |-> GLSegData(l.gl_segs[k])],
     gl_ssect |-> [k \in 1 .. Len(l.gl_ssect) |-> GLSSectData(l.gl_ssect[k])],
     gl_nodes |-> [k \in 1 .. Len(l.gl_nodes) |-> GLNodeData(l.gl_nodes[k])]]

(***************************************************************************)
(* The fixed-record decoders as readers of a byte buffer                   *)
(* (src/doom/map/load.rs, lines 472-844).  A buffer is its length, whether *)
(* it starts with the GL signature, and the number of the first record     *)
(* with a name field that is not UTF-8 (0 when there is none); a record    *)
(* format is the sequence of its reads, each with its width in bytes.      *)
(***************************************************************************)
MaxBytes == 64

Formats == {"things", "linedefs", "sidedefs", "vertexes", "sectors",
            "gl_vert", "gl_segs", "gl_ssect", "gl_nodes"}

\* read_i16 / read_u16 / read_i32 and read_exact into the 8-byte name buffer
Int16 == [w |-> 2, name |-> FALSE]

Int32 == [w |-> 4, name |-> FALSE]

Name8 == [w |-> 8, name |-> TRUE]

\* the reads of one iteration of the loop of each import
Fields(format) ==
    CASE format = "things"   -> <<Int16, Int16, Int16, Int16, Int16>>
      [] format = "linedefs" -> <<Int16, Int16, Int16, Int16, Int16, Int16, Int16>>
      [] format = "sidedefs" -> <<Int16, Int16, Name8, Name8, Name8, Int16>>
      [] format = "vertexes" -> <<Int16, Int16>>
      [] format = "sectors"  -> <<Int16, Int16, Name8, Name8, Int16, Int16, Int16>>
      [] format = "gl_vert"  -> <<Int32, Int32>>
      [] format = "gl_segs"  -> <<Int16, Int16, Int16, Int16, Int16>>
      [] format = "gl_ssect" -> <<Int16, Int16>>
      [] format = "gl_nodes" -> <<Int16, Int16, Int16, Int16, Int16, Int16, Int16,
                                  Int16, Int16, Int16, Int16, Int16, Int16, Int16>>

\* bytes read before the loop: the signature of the GL vertex lump
Header(format) == IF format = "gl_vert" THEN 4 ELSE 0

NoDecoder == [format |-> "", len |-> 0, magic |-> FALSE, badname |-> 0,
              status |-> "off", count |-> 0, err |-> ""]

\* a read that takes the bytes that are left when there are too few
read_exact_short(position, w, len) ==
    [ok |-> TRUE, position |-> IF position + w <= len THEN position + w ELSE len]

\* Read::read_exact on the Cursor: w bytes, or an error at the end of the buffer
read_exact(position, w, len) ==
    IF position + w <= len
    THEN [ok |-> TRUE, position |-> position + w]
    ELSE [ok |-> FALSE, position |-> position]

\* one iteration of the loop from read i on: each read ends the import with
\* its error (the ? operator), and so does from_utf8 on a name
RECURSIVE ReadRecord(_, _, _, _, _)
ReadRecord(fields, i, position, len, bad) ==
    IF i > Len(fields) THEN [ok |-> TRUE, position |-> position, err |-> ""]
    ELSE IF ~read_exact(position, fields[i].w, len).ok
    THEN [ok |-> FALSE, position |-> position, err |-> "failed to fill whole buffer"]
    ELSE IF fields[i].name /\ bad
    THEN [ok |-> FALSE, position |-> position, err |-> "invalid utf-8"]
    ELSE ReadRecord(fields, i + 1, read_exact(position, fields[i].w, len).position, len, bad)

\* while reader.position() < len { ret.push(..) }; Ok(ret)
RECURSIVE ReadRecords(_, _, _, _, _)
ReadRecords(format, position, len, badname, count) ==
    IF position >= len THEN [status |-> "ok", count |-> count, err |-> ""]
    ELSE IF ~ReadRecord(Fields(format), 1, position, len, badname = count + 1).ok
    THEN [status |-> "err", count |-> 0,
          err |-> ReadRecord(Fields(format), 1, position, len, badname = count + 1).err]
    ELSE ReadRecords(format,
                     ReadRecord(Fields(format), 1, position, len, badname = count + 1).position,
                     len, badname, count + 1)

\* AssetFormat::import of the nine formats
import_lump(format, len, magic, badname) ==
    IF ~read_exact(0, Header(format), len).ok
    THEN [status |-> "err", count |-> 0, err |-> "failed to fill whole buffer"]
    ELSE IF Header(format) > 0 /\ ~magic
    THEN [status |-> "err", count |-> 0, err |-> "No gNd2 signature found"]
    ELSE ReadRecords(format, Header(format), len, badname, 0)

(***************************************************************************)
(* Cross-reference validator: Map::import, lines 52-143.  Every ensure!    *)
(* is a check [ok, msg]; the checks are listed in the order the code runs  *)
(* them and the first one that fails is the error returned.                *)
(***************************************************************************)
RECURSIVE Flatten(_)
Flatten(qq) == IF qq = <<>> THEN <<>> ELSE Head(qq) \o Flatten(Tail(qq))

Check(ok, what, i, value) == [ok |-> ok, msg |-> <<what, i, value>>]

\* a validator without the sidedef sector check
SidedefChecks_none(d) == <<>>

\* positions are 1-based here, record numbers 0-based as in the code
SidedefChecks(d) ==
    [k \in 1 .. Len(d.sidedefs) |->
        Check(d.sidedefs[k].sector_index < Len(d.sectors),
              "Sidedef has invalid sector index", k - 1, d.sidedefs[k].sector_index)]

LinedefChecks(d) ==
    Flatten([k \in 1 .. Len(d.linedefs) |->
        Flatten([j \in 1 .. 2 |->
            LET index == d.linedefs[k].sidedef_indices[j]
            IN IF index.some
               THEN <<Check(index.v < Len(d.sidedefs),
                            "Linedef has invalid sidedef index", k - 1, index.v)>>
               ELSE <<>>])])

SegVertexCheck(d, k, index) ==
    IF index.gl
    THEN Check(index.v < Len(d.gl_vert), "Seg has invalid vertex index", k - 1, index.v)
    ELSE Check(index.v < Len(d.vertexes), "Seg has invalid vertex index", k - 1, index.v)

\* the seg checks kind by kind: every linedef index, then every vertex
\* index, then every partner index
SegChecks_by_kind(d) ==
    Flatten([k \in 1 .. Len(d.gl_segs) |->
        IF d.gl_segs[k].linedef_index.some
        THEN <<Check(d.gl_segs[k].linedef_index.v < Len(d.linedefs),
                     "Seg has invalid linedef index", k - 1, d.gl_segs[k].linedef_index.v)>>
        ELSE <<>>])
    \o Flatten([k \in 1 .. Len(d.gl_segs) |->
        <<SegVertexCheck(d, k, d.gl_segs[k].vertex_indices[1]),
          SegVertexCheck(d, k, d.gl_segs[k].vertex_indices[2])>>])
    \o Flatten([k \in 1 .. Len(d.gl_segs) |->
        IF d.gl_segs[k].partner_seg_index.some
        THEN <<Check(d.gl_segs[k].partner_seg_index.v < Len(d.gl_segs),
                     "Seg has invalid partner seg index", k - 1, d.gl_segs[k].partner_seg_index.v)>>
        ELSE <<>>])

SegChecks(d) ==
    Flatten([k \in 1 .. Len(d.gl_segs) |->
        LET seg == d.gl_segs[k]
        IN (IF seg.linedef_index.some
            THEN <<Check(seg.linedef_index.v < Len(d.linedefs),
                         "Seg has invalid linedef index", k - 1, seg.linedef_index.v)>>
            ELSE <<>>)
           \o <<SegVertexCheck(d, k, seg.vertex_indices[1]),
                SegVertexCheck(d, k, seg.vertex_indices[2])>>
           \o (IF seg.partner_seg_index.some
               THEN <<Check(seg.partner_seg_index.v < Len(d.gl_segs),
                            "Seg has invalid partner seg index", k - 1, seg.partner_seg_index.v)>>
               ELSE <<>>)])

SSectChecks(d) ==
    Flatten([k \in 1 .. Len(d.gl_ssect) |->
        LET ssect == d.gl_ssect[k]
        IN <<Check(ssect.first_seg_index < Len(d.gl_segs),
                   "Subsector has invalid first seg index", k - 1, ssect.first_seg_index),
             Check(ssect.first_seg_index + ssect.seg_count <= Len(d.gl_segs),
                   "Subsector has overflowing seg count", k - 1, ssect.seg_count)>>])

NodeChildCheck(d, k, child) ==
    IF child.leaf
    THEN Check(child.v < Len(d.gl_ssect), "Node has invalid subsector index", k - 1, child.v)
    ELSE Check(child.v < Len(d.gl_nodes), "Node has invalid child node index", k - 1, child.v)

NodeChecks(d) ==
    Flatten([k \in 1 .. Len(d.gl_nodes) |->
        <<NodeChildCheck(d, k, d.gl_nodes[k].child_indices[1]),
          NodeChildCheck(d, k, d.gl_nodes[k].child_indices[2])>>])

Checks(d) ==
    SidedefChecks(d) \o LinedefChecks(d) \o SegChecks(d) \o SSectChecks(d) \o NodeChecks(d)

NoError == <<"", 0, 0>>

NoMapData ==
    [linedefs |-> <<>>, sidedefs |-> <<>>, vertexes |-> <<>>, sectors |-> <<>>,
     gl_vert |-> <<>>, gl_segs |-> <<>>, gl_ssect |-> <<>>, gl_nodes |-> <<>>]

\* Map::import: Ok(MapData) or the error of the first failing ensure!
import_map(l) ==
    LET d == Decode(l)
        cs == Checks(d)
        bad == {k \in 1 .. Len(cs) : ~cs[k].ok}
    IN IF bad = {}
       THEN [ok |-> TRUE, data |-> d, err |-> NoError]
       ELSE [ok |-> FALSE, data |-> NoMapData,
             err |-> cs[CHOOSE k \in bad : \A j \in bad : k <= j].msg]

(***************************************************************************)
(* build_map (src/doom/map/load.rs, lines 158-452).  The builder state bs  *)
(* carries the registry, the heap of handles, the two per-map caches and   *)
(* the list of the names requested from the registry.                      *)
(***************************************************************************)
\* TextureType
TexNone == [kind |-> "None", h |-> NoHandle]

TexSky == [kind |-> "Sky", h |-> NoHandle]

TexNormal(h) == [kind |-> "Normal", h |-> h]

\* TextureType::is_sky
is_sky(tex) == tex.kind = "Sky"

\* handles the builder holds: the caches and the sky handle
BuilderStrong(bs) ==
    {bs.sky} \cup {bs.flats[n] : n \in DOMAIN bs.flats}
             \cup {bs.textures[n] : n \in DOMAIN bs.textures}

\* the builder state after the registry returned res for name n of table t
Loaded(bs, t, n, res) ==
    [bs EXCEPT !.reg = res.reg, !.arcs = res.arcs,
               !.requests = Append(@, <<t, n>>),
               !.last = res.h]

\* flat_storage.load / wall_texture_storage.load
StorageLoad(bs, t, n) ==
    Loaded(bs, t, n, load(bs.reg, bs.arcs, t, n, bs.source,
                          Strong(bs.reg, BuilderStrong(bs) \cup bs.ext, <<>>)))

\* lines 190-193: the handle that was loaded enters the flats cache
CacheFlat(bs, n) == [bs EXCEPT !.flats = MapInsert(@, n, bs.last)]

\* lines 188-197 and 203-210: a flat name through the flats cache
CachedFlat(bs, n) ==
    IF n \in DOMAIN bs.flats
    THEN [bs EXCEPT !.last = bs.flats[n]]
    ELSE CacheFlat(StorageLoad(bs, "Flat", n), n)

\* lines 232-235: the handle that was loaded enters the textures cache
CacheTexture(bs, n) == [bs EXCEPT !.textures = MapInsert(@, n, bs.last)]

\* a wall texture name that is loaded without a look at the cache
CachedTexture_uncached(bs, n) == CacheTexture(StorageLoad(bs, "WallTexture", n), n)

\* lines 230-238, 243-251, 256-264: a wall texture name through the textures cache
CachedTexture(bs, n) ==
    IF n \in DOMAIN bs.textures
    THEN [bs EXCEPT !.last = bs.textures[n]]
    ELSE CacheTexture(StorageLoad(bs, "WallTexture", n), n)

\* TextureType::Normal of the handle the cache returned
Normal(bs) == [bs |-> bs, tex |-> TexNormal(bs.last)]

\* a flat match without the "F_SKY1" arm
FlatTexture_no_sky(bs, name) ==
    IF ~name.some THEN [bs |-> bs, tex |-> TexNone]
    ELSE Normal(CachedFlat(bs, name.v))

\* the match on a flat name, lines 185-198: result in .tex
FlatTexture(bs, name) ==
    IF ~name.some THEN [bs |-> bs, tex |-> TexNone]
    ELSE IF name.v = "F_SKY1" THEN [bs |-> bs, tex |-> TexSky]
    ELSE Normal(CachedFlat(bs, name.v))

\* the match on a top texture name, lines 227-240
TopTexture(bs, name) ==
    IF ~name.some THEN [bs |-> bs, tex |-> TexNone]
    ELSE IF name.v = "F_SKY1" THEN [bs |-> bs, tex |-> TexSky]
    ELSE Normal(CachedTexture(bs, name.v))

\* a bottom or middle match with the "F_SKY1" arm of the top match
WallTexture_sky(bs, name) ==
    IF ~name.some THEN [bs |-> bs, tex |-> TexNone]
    ELSE IF name.v = "F_SKY1" THEN [bs |-> bs, tex |-> TexSky]
    ELSE Normal(CachedTexture(bs, name.v))

\* the match on a bottom or middle texture name, lines 241-266
WallTexture(bs, name) ==
    IF ~name.some THEN [bs |-> bs, tex |-> TexNone]
    ELSE Normal(CachedTexture(bs, name.v))

\* lines 180-220: the sectors one by one, floor flat first, then ceiling flat
RECURSIVE BuildSectors(_, _, _, _)
SectorCeiling(fl, ce, datas, k, acc) ==
    BuildSectors(ce.bs, datas, k + 1,
                 Append(acc, [floor_texture |-> fl.tex,
                              ceiling_texture |-> ce.tex,
                              special_type |-> datas[k].special_type,
                              sector_tag |-> datas[k].special_type,
                              subsectors |-> <<>>,
                              neighbours |-> <<>>]))

SectorFloor(fl, datas, k, acc) ==
    SectorCeiling(fl, FlatTexture(fl.bs, datas[k].ceiling_flat_name), datas, k, acc)

BuildSectors(bs, datas, k, acc) ==
    IF k > Len(datas) THEN [bs |-> bs, sectors |-> acc]
    ELSE SectorFloor(FlatTexture(bs, datas[k].floor_flat_name), datas, k, acc)

NoSidedef ==
    [some |-> FALSE,
     v |-> [top_texture |-> TexNone, bottom_texture |-> TexNone,
            middle_texture |-> TexNone, sector_index |-> 0]]

\* lines 222-270: the sidedefs one by one, top, bottom and middle texture
RECURSIVE BuildSidedefs(_, _, _, _)
SidedefMiddle(to, bo, mi, datas, k, acc) ==
    BuildSidedefs(mi.bs, datas, k + 1,
                  Append(acc, [some |-> TRUE,
                               v |-> [top_texture |-> to.tex,
                                      bottom_texture |-> bo.tex,
                                      middle_texture |-> mi.tex,
                                      sector_index |-> datas[k].sector_index]]))

SidedefBottom(to, bo, datas, k, acc) ==
    SidedefMiddle(to, bo, WallTexture(bo.bs, datas[k].middle_texture_name), datas, k, acc)

SidedefTop(to, datas, k, acc) ==
    SidedefBottom(to, WallTexture(to.bs, datas[k].bottom_texture_name), datas, k, acc)

BuildSidedefs(bs, datas, k, acc) ==
    IF k > Len(datas) THEN [bs |-> bs, sidedefs |-> acc]
    ELSE SidedefTop(TopTexture(bs, datas[k].top_texture_name), datas, k, acc)

\* sidedefs[x].take().unwrap(), lines 276-277: aborts on an index outside the
\* array and on a sidedef that was taken before
TakeSidedef(sidedefs, index) ==
    IF ~index.some
    THEN [panic |-> FALSE, sidedefs |-> sidedefs, sd |-> NoSidedef]
    ELSE IF index.v >= Len(sidedefs) \/ ~sidedefs[index.v + 1].some
    THEN [panic |-> TRUE, sidedefs |-> sidedefs, sd |-> NoSidedef]
    ELSE [panic |-> FALSE,
          sidedefs |-> [sidedefs EXCEPT ![index.v + 1] = NoSidedef],
          sd |-> sidedefs[index.v + 1]]

Contains(q, x) == \E k \in 1 .. Len(q) : q[k] = x

\* a push without the contains test
AddNeighbour_push(sectors, s, t) ==
    [sectors EXCEPT ![s + 1].neighbours = Append(@, t)]

\* lines 283-292: push t on the neighbours of sector s unless it is there
AddNeighbour(sectors, s, t) ==
    IF Contains(sectors[s + 1].neighbours, t)
    THEN sectors
    ELSE [sectors EXCEPT ![s + 1].neighbours = Append(@, t)]

\* a sky hack that looks at the front sector only
TwoSided_front_sky(sectors, front, back) ==
    LET fs == front.v.sector_index
        bk == back.v.sector_index
        oor == fs >= Len(sectors) \/ bk >= Len(sectors)
    IN IF oor
       THEN [panic |-> TRUE, sectors |-> sectors, front |-> front, back |-> back]
       ELSE LET s2 == IF fs # bk
                      THEN AddNeighbour(AddNeighbour(sectors, fs, bk), bk, fs)
                      ELSE sectors
                sky == is_sky(s2[fs + 1].ceiling_texture)
            IN [panic |-> FALSE,
                sectors |-> s2,
                front |-> IF sky THEN [front EXCEPT !.v.top_texture = TexSky] ELSE front,
                back |-> IF sky THEN [back EXCEPT !.v.top_texture = TexSky] ELSE back]

\* lines 280-302 for a linedef with both sidedefs
TwoSided(sectors, front, back) ==
    LET fs == front.v.sector_index
        bk == back.v.sector_index
        differ == fs # bk
        oor == fs >= Len(sectors) \/ bk >= Len(sectors)
    IN IF oor
       THEN [panic |-> TRUE, sectors |-> sectors, front |-> front, back |-> back]
       ELSE LET s2 == IF differ
                      THEN AddNeighbour(AddNeighbour(sectors, fs, bk), bk, fs)
                      ELSE sectors
                bothsky == is_sky(s2[fs + 1].ceiling_texture)
                             /\ is_sky(s2[bk + 1].ceiling_texture)
            IN [panic |-> FALSE,
                sectors |-> s2,
                front |-> IF bothsky THEN [front EXCEPT !.v.top_texture = TexSky] ELSE front,
                back |-> IF bothsky THEN [back EXCEPT !.v.top_texture = TexSky] ELSE back]

\* lines 272-345: one linedef; ls is [sidedefs, sectors, linedefs, panic]
BuildLinedef(ls, data, vertexes) ==
    LET t0 == TakeSidedef(ls.sidedefs, data.sidedef_indices[1])
        t1 == TakeSidedef(t0.sidedefs, data.sidedef_indices[2])
        two == IF t0.sd.some /\ t1.sd.some
               THEN TwoSided(ls.sectors, t0.sd, t1.sd)
               ELSE [panic |-> FALSE, sectors |-> ls.sectors, front |-> t0.sd, back |-> t1.sd]
        badvertex == data.vertex_indices[1] >= Len(vertexes)
                       \/ data.vertex_indices[2] >= Len(vertexes)
    IN IF t0.panic \/ t1.panic \/ two.panic \/ badvertex
       THEN [ls EXCEPT !.panic = TRUE]
       ELSE [sidedefs |-> t1.sidedefs,
             sectors |-> two.sectors,
             linedefs |-> Append(ls.linedefs,
                                 [line |-> <<vertexes[data.vertex_indices[1] + 1],
                                             vertexes[data.vertex_indices[2] + 1]>>,
                                  sidedefs |-> <<two.front, two.back>>]),
             panic |-> FALSE]

RECURSIVE BuildLinedefs(_, _, _, _)
BuildLinedefs(ls, datas, vertexes, k) ==
    IF k > Len(datas) \/ ls.panic THEN ls
    ELSE BuildLinedefs(BuildLinedef(ls, datas[k], vertexes), datas, vertexes, k + 1)

\* a child reference that is copied as it is
ReindexChild_identity(child, nodes_len) == child

\* lines 357-364: a child reference in root-first order
ReindexChild(child, nodes_len) ==
    IF child.leaf THEN child ELSE [leaf |-> FALSE, v |-> nodes_len - child.v - 1]

\* lines 347-368: the nodes in reverse order, internal references re-indexed;
\* nodes_len - index - 1 aborts on underflow
BuildNodes(datas) ==
    LET nodes_len == Len(datas)
        under == \E k \in 1 .. nodes_len : \E j \in 1 .. 2 :
                    ~datas[k].child_indices[j].leaf /\ datas[k].child_indices[j].v >= nodes_len
    IN [panic |-> under,
        nodes |-> IF under THEN <<>>
                  ELSE [k \in 1 .. nodes_len |->
                          LET data == datas[nodes_len + 1 - k]
                          IN [partition |-> data.partition,
                              child_indices |->
                                 <<ReindexChild(data.child_indices[1], nodes_len),
                                   ReindexChild(data.child_indices[2], nodes_len)>>]]]

\* lines 373-382: the endpoint a vertex reference selects
VertexOk(index, vertexes, gl_vert) ==
    IF index.gl THEN index.v < Len(gl_vert) ELSE index.v < Len(vertexes)

Vertex(index, vertexes, gl_vert) ==
    IF index.gl THEN gl_vert[index.v + 1] ELSE vertexes[index.v + 1]

\* lines 370-393
BuildSegs(datas, vertexes, gl_vert) ==
    LET bad == \E k \in 1 .. Len(datas) : \E j \in 1 .. 2 :
                  ~VertexOk(datas[k].vertex_indices[j], vertexes, gl_vert)
    IN [panic |-> bad,
        segs |-> IF bad THEN <<>>
                 ELSE [k \in 1 .. Len(datas) |->
                         [vertices |-> <<Vertex(datas[k].vertex_indices[1], vertexes, gl_vert),
                                         Vertex(datas[k].vertex_indices[2], vertexes, gl_vert)>>,
                          linedef_index |-> datas[k].linedef_index,
                          linedef_side |-> datas[k].linedef_side]]]

\* a search that looks at seg k only
FindSidedef_first(segs, linedefs, k) ==
    IF k > Len(segs) \/ ~segs[k].linedef_index.some
    THEN [panic |-> FALSE, found |-> FALSE, sector_index |-> 0]
    ELSE IF segs[k].linedef_index.v >= Len(linedefs)
    THEN [panic |-> TRUE, found |-> FALSE, sector_index |-> 0]
    ELSE LET sidedef == linedefs[segs[k].linedef_index.v + 1].sidedefs[segs[k].linedef_side + 1]
         IN IF sidedef.some
            THEN [panic |-> FALSE, found |-> TRUE, sector_index |-> sidedef.v.sector_index]
            ELSE [panic |-> FALSE, found |-> FALSE, sector_index |-> 0]

\* lines 403-406: the sidedef of the first seg of the range that has one
RECURSIVE FindSidedef(_, _, _)
FindSidedef(segs, linedefs, k) ==
    IF k > Len(segs) THEN [panic |-> FALSE, found |-> FALSE, sector_index |-> 0]
    ELSE IF ~segs[k].linedef_index.some THEN FindSidedef(segs, linedefs, k + 1)
    ELSE IF segs[k].linedef_index.v >= Len(linedefs)
    THEN [panic |-> TRUE, found |-> FALSE, sector_index |-> 0]
    ELSE LET sidedef == linedefs[segs[k].linedef_index.v + 1].sidedefs[segs[k].linedef_side + 1]
         IN IF sidedef.some
            THEN [panic |-> FALSE, found |-> TRUE, sector_index |-> sidedef.v.sector_index]
            ELSE FindSidedef(segs, linedefs, k + 1)

RECURSIVE BuildSubsectors(_, _, _, _, _)
\* a subsector loop that puts every subsector in front of its sector's list
BuildSubsectors_prepend(ss, datas, segs, linedefs, k) ==
    IF k > Len(datas) \/ ss.status # "ok" THEN ss
    ELSE LET first == datas[k].first_seg_index
             last == datas[k].first_seg_index + datas[k].seg_count
             slice == SubSeq(segs, first + 1, last)
             owner_ == FindSidedef(slice, linedefs, 1)
         IN IF last > Len(segs) THEN [ss EXCEPT !.status = "panic"]
            ELSE IF owner_.panic THEN [ss EXCEPT !.status = "panic"]
            ELSE IF ~owner_.found
            THEN [ss EXCEPT !.status = "err",
                            !.err = <<"No sector could be found for subsector", k - 1, 0>>]
            ELSE IF owner_.sector_index >= Len(ss.sectors) THEN [ss EXCEPT !.status = "panic"]
            ELSE BuildSubsectors(
                    [ss EXCEPT !.sectors[owner_.sector_index + 1].subsectors = <<k - 1>> \o @,
                               !.subsectors = Append(@, [segs |-> slice,
                                                         sector_index |-> owner_.sector_index])],
                    datas, segs, linedefs, k + 1)

\* lines 395-443: ss is [sectors, subsectors, status]
BuildSubsectors(ss, datas, segs, linedefs, k) ==
    IF k > Len(datas) \/ ss.status # "ok" THEN ss
    ELSE LET first == datas[k].first_seg_index
             last == datas[k].first_seg_index + datas[k].seg_count
             slice == SubSeq(segs, first + 1, last)
             owner_ == FindSidedef(slice, linedefs, 1)
         IN IF last > Len(segs) THEN [ss EXCEPT !.status = "panic"]
            ELSE IF owner_.panic THEN [ss EXCEPT !.status = "panic"]
            ELSE IF ~owner_.found
            THEN [ss EXCEPT !.status = "err",
                            !.err = <<"No sector could be found for subsector", k - 1, 0>>]
            ELSE IF owner_.sector_index >= Len(ss.sectors) THEN [ss EXCEPT !.status = "panic"]
            ELSE BuildSubsectors(
                    [ss EXCEPT !.sectors[owner_.sector_index + 1].subsectors = Append(@, k - 1),
                               !.subsectors = Append(@, [segs |-> slice,
                                                         sector_index |-> owner_.sector_index])],
                    datas, segs, linedefs, k + 1)

NoMap == [linedefs |-> <<>>, sectors |-> <<>>, subsectors |-> <<>>, nodes |-> <<>>,
          sky |-> NoHandle]

\* lines 347-451: nodes, segs and subsectors, and the value build_map returns:
\* status "ok" with the Map, "err" with the build error, or "panic"
MapBsp(map_data, bs, li) ==
    LET no == BuildNodes(map_data.gl_nodes)
        sg == BuildSegs(map_data.gl_segs, map_data.vertexes, map_data.gl_vert)
        ss == BuildSubsectors([sectors |-> li.sectors, subsectors |-> <<>>,
                               status |-> "ok", err |-> NoError],
                              map_data.gl_ssect, sg.segs, li.linedefs, 1)
        status == IF li.panic \/ no.panic \/ sg.panic THEN "panic" ELSE ss.status
    IN [status |-> status,
        err |-> IF status = "err" THEN ss.err ELSE NoError,
        map |-> IF status = "ok"
                THEN [linedefs |-> li.linedefs, sectors |-> ss.sectors,
                      subsectors |-> ss.subsectors, nodes |-> no.nodes, sky |-> bs.sky]
                ELSE NoMap,
        sidedefs |-> li.sidedefs,
        bs |-> bs]

\* lines 272-345 after the sidedefs si were built
MapLinedefs(map_data, sectors, si) ==
    MapBsp(map_data, si.bs,
           BuildLinedefs([sidedefs |-> si.sidedefs, sectors |-> sectors,
                          linedefs |-> <<>>, panic |-> FALSE],
                         map_data.linedefs, map_data.vertexes, 1))

\* lines 222-270 after the sectors se were built
MapSidedefs(map_data, se) ==
    MapLinedefs(map_data, se.sectors, BuildSidedefs(se.bs, map_data.sidedefs, 1, <<>>))

\* lines 180-220 after the sky texture was requested
MapSectors(map_data, bs) ==
    MapSidedefs(map_data, BuildSectors([bs EXCEPT !.sky = bs.last], map_data.sectors, 1, <<>>))

\* build_map, which starts by requesting the sky texture (line 167)
build_map(map_data, sky_name, bs0) ==
    MapSectors(map_data, StorageLoad(bs0, "WallTexture", sky_name))

(***************************************************************************)
(* The registry state machine                                              *)
(***************************************************************************)
Live == Strong(reg, held, stack)

Registered(t) == t \in DOMAIN reg.storages

RegInit ==
    /\ reg = [handle_allocator |-> [highest_id |-> 0, unused_ids |-> <<>>],
              storages |-> [u \in {} |-> AssetStorageTyped]]
    /\ arcs = <<>>
    /\ owner = <<>>
    /\ named = [t \in Types, n \in Names |-> NoHandle]
    /\ held = {}
    /\ source \in Sources
    /\ stack = <<>>
    /\ ret = [op |-> "new", t |-> "", n |-> NoName, h |-> NoHandle, decoded |-> FALSE, v |-> NoValue, prev |-> NoHandle]
    /\ aborted = FALSE
    /\ log = <<>>

\* storage / storage_mut: expect("unknown asset type")
Abort(op, t, n) ==
    /\ aborted' = TRUE
    /\ ret' = [op |-> op, t |-> t, n |-> n, h |-> NoHandle, decoded |-> FALSE, v |-> NoValue, prev |-> NoHandle]
    /\ UNCHANGED <<reg, arcs, owner, named, held, source, stack, log>>
    /\ UNCHANGED mapvars

\* a call that returns a handle: the caller now holds it
Returned(op, t, n, v, res, dec) ==
    /\ Len(res.arcs) <= MaxAllocs
    /\ reg' = res.reg
    /\ arcs' = res.arcs
    /\ owner' = IF Len(res.arcs) > Len(arcs) THEN Append(owner, <<t, n>>) ELSE owner
    /\ held' = held \cup {res.h}
    /\ named' = IF op = "insert_with_name" THEN [named EXCEPT ![t, n] = res.h] ELSE named
    /\ ret' = [op |-> op, t |-> t, n |-> n, h |-> res.h, decoded |-> dec, v |-> v,
               prev |-> IF op = "insert_with_name" THEN named[t, n] ELSE NoHandle]
    /\ log' = IF Len(res.arcs) > Len(arcs) THEN Append(log, [h |-> res.h, what |-> op]) ELSE log
    /\ UNCHANGED <<source, stack, aborted>>
    /\ UNCHANGED mapvars

AddStorage(t) ==
    /\ ~aborted
    /\ reg' = add_storage(reg, t)
    /\ ret' = [op |-> "add_storage", t |-> t, n |-> NoName, h |-> NoHandle, decoded |-> FALSE, v |-> NoValue, prev |-> NoHandle]
    /\ UNCHANGED <<arcs, owner, named, held, source, stack, aborted, log>>
    /\ UNCHANGED mapvars

Insert(t, v) ==
    /\ ~aborted
    /\ IF Registered(t)
       THEN Returned("insert", t, NoName, v, insert(reg, arcs, t, v), FALSE)
       ELSE Abort("insert", t, NoName)

InsertWithName(t, n, v) ==
    /\ ~aborted
    /\ IF Registered(t)
       THEN Returned("insert_with_name", t, n, v,
                     insert_with_name(reg, arcs, t, n, v, Live), FALSE)
       ELSE Abort("insert_with_name", t, n)

Load(t, n) ==
    /\ ~aborted
    /\ IF Registered(t)
       THEN LET res == load(reg, arcs, t, n, source, Live)
            IN Returned("load", t, n, NoValue, res, res.decoded)
       ELSE Abort("load", t, n)

\* get, get_by_name and handle_for take &self: they return what the operators
\* of the same name compute and change nothing, after storage::<A> found the
\* table or aborted
Get(t) ==
    /\ ~aborted
    /\ IF Registered(t) THEN UNCHANGED vars ELSE Abort("get", t, NoName)

GetByName(t, n) ==
    /\ ~aborted
    /\ IF Registered(t) THEN UNCHANGED vars ELSE Abort("get_by_name", t, n)

HandleFor(t, n) ==
    /\ ~aborted
    /\ IF Registered(t) THEN UNCHANGED vars ELSE Abort("handle_for", t, n)

\* iter, lines 53-59: unwraps the value of every handle of the iteration list
Iter(t) ==
    /\ ~aborted
    /\ IF Registered(t)
          /\ \A i \in 1 .. Len(reg.storages[t].handles) :
                id(arcs, reg.storages[t].handles[i]) \in DOMAIN reg.storages[t].assets
       THEN UNCHANGED vars
       ELSE Abort("iter", t, NoName)

\* a caller drops its last clone of a handle
Drop(h) ==
    /\ ~aborted
    /\ h \in held
    /\ held' = held \ {h}
    /\ UNCHANGED <<reg, arcs, owner, named, source, stack, ret, aborted, log>>
    /\ UNCHANGED mapvars

\* AssetStorage::build_waiting up to the first call of build_func
BuildWaiting(t) ==
    /\ ~aborted
    /\ Len(stack) < MaxDepth
    /\ ret' = [op |-> "build_waiting", t |-> t, n |-> NoName, h |-> NoHandle, decoded |-> FALSE, v |-> NoValue, prev |-> NoHandle]
    /\ IF Registered(t)
       THEN /\ reg' = [reg EXCEPT !.storages[t].unbuilt = <<>>]
            /\ stack' = advance(stack, t, reg.storages[t].unbuilt, reg.storages[t].unbuilt)
            /\ log' = log \o DrainEvents(reg.storages[t].unbuilt, stack, stack')
       ELSE UNCHANGED <<reg, stack, log>>
    /\ UNCHANGED <<arcs, owner, named, held, source, aborted>>
    /\ UNCHANGED mapvars

\* a loop that inserts a value whatever build_func returned
build_return_always(r, a, stk, ok) ==
    LET f == stk[Len(stk)]
        below == SubSeq(stk, 1, Len(stk) - 1)
    IN [reg |-> [r EXCEPT
                   !.storages[f.t].assets = MapInsert(@, id(a, f.cur.handle), Built(f.cur.name)),
                   !.storages[f.t].handles = Append(@, f.cur.handle)],
        stack |-> advance(below, f.t, f.rest, f.batch)]

\* a loop that goes on with the entries that were queued while it ran
build_return_takes_new(r, a, stk, ok) ==
    LET f == stk[Len(stk)]
        below == SubSeq(stk, 1, Len(stk) - 1)
    IN [reg |-> IF ok
                THEN [r EXCEPT
                        !.storages[f.t].assets = MapInsert(@, id(a, f.cur.handle), Built(f.cur.name)),
                        !.storages[f.t].handles = Append(@, f.cur.handle),
                        !.storages[f.t].unbuilt = <<>>]
                ELSE [r EXCEPT !.storages[f.t].unbuilt = <<>>],
        stack |-> advance(below, f.t, f.rest \o r.storages[f.t].unbuilt, f.batch)]

\* a loop that puts an entry whose build failed back into the queue
build_return_retry(r, a, stk, ok) ==
    LET f == stk[Len(stk)]
        below == SubSeq(stk, 1, Len(stk) - 1)
    IN [reg |-> IF ok
                THEN [r EXCEPT
                        !.storages[f.t].assets = MapInsert(@, id(a, f.cur.handle), Built(f.cur.name)),
                        !.storages[f.t].handles = Append(@, f.cur.handle)]
                ELSE [r EXCEPT !.storages[f.t].unbuilt = Append(@, f.cur)],
        stack |-> advance(below, f.t, f.rest, f.batch)]

\* build_waiting, lines 145-166, after build_func returned: the asset is
\* inserted or the error logged, then the loop goes on
build_return(r, a, stk, ok) ==
    LET f == stk[Len(stk)]
        below == SubSeq(stk, 1, Len(stk) - 1)
    IN [reg |-> IF ok
                THEN [r EXCEPT
                        !.storages[f.t].assets = MapInsert(@, id(a, f.cur.handle), Built(f.cur.name)),
                        !.storages[f.t].handles = Append(@, f.cur.handle)]
                ELSE r,
        stack |-> advance(below, f.t, f.rest, f.batch)]

\* build_func returns to the innermost build_waiting
BuildFuncReturn(ok) ==
    /\ ~aborted
    /\ stack # <<>>
    /\ reg' = build_return(reg, arcs, stack, ok).reg
    /\ stack' = build_return(reg, arcs, stack, ok).stack
    /\ ret' = [op |-> IF ok THEN "build_ok" ELSE "build_err", t |-> stack[Len(stack)].t,
               n |-> stack[Len(stack)].cur.name,
               h |-> stack[Len(stack)].cur.handle, decoded |-> FALSE, v |-> NoValue, prev |-> NoHandle]
    /\ log' = Append(log, [h |-> stack[Len(stack)].cur.handle,
                           what |-> IF ok THEN "ok" ELSE "err"])
                 \o DrainEvents(stack[Len(stack)].rest, SubSeq(stack, 1, Len(stack) - 1), stack')
    /\ UNCHANGED <<arcs, owner, named, held, source, aborted>>
    /\ UNCHANGED mapvars

\* the application registers each asset type once
Register(t) == ~Registered(t) /\ AddStorage(t)

RegNext ==
    \/ \E t \in Types : Register(t)
    \/ \E t \in Types, v \in Given : Insert(t, v)
    \/ \E t \in Types, n \in Names, v \in Given : InsertWithName(t, n, v)
    \/ \E t \in Types, n \in Names : Load(t, n)
    \/ \E t \in Types : Get(t)
    \/ \E t \in Types, n \in Names : GetByName(t, n)
    \/ \E t \in Types, n \in Names : HandleFor(t, n)
    \/ \E t \in Types : Iter(t)
    \/ \E h \in held : Drop(h)
    \/ \E t \in Types : BuildWaiting(t)
    \/ \E ok \in BOOLEAN : BuildFuncReturn(ok)

NoLumps == NoMapData

NoImport == [ok |-> FALSE, data |-> NoMapData, err |-> NoError]

NoBuild == [status |-> "none", err |-> NoError, map |-> NoMap, sidedefs |-> <<>>,
            requests |-> <<>>]

Init ==
    /\ RegInit
    /\ lumps = NoLumps
    /\ imported = NoImport
    /\ built = NoBuild
    /\ edits = 0
    /\ pc = "off"
    /\ decoder = NoDecoder

Next == RegNext

Spec == Init /\ [][Next]_vars

\* add_storage called for a type that has a table
Reregister(t) == Registered(t) /\ AddStorage(t)

\* the registry used by an application that also calls add_storage again
ResetNext ==
    \/ RegNext
    \/ \E t \in Types : Reregister(t)

SpecReset == Init /\ [][ResetNext]_vars

(***************************************************************************)
(* The levels explored: two well-formed levels and every level that        *)
(* differs from one of them in at most MaxMutations fields or lump         *)
(* lengths.                                                                *)
(***************************************************************************)
MaxMutations == 2

\* name of the level and of its sky texture (src/main.rs, lines 394-398)
LevelName == "E1M1"

SkyName == "SKY1"

\* one sector, one one-sided linedef, no GL records
OneSector ==
    [sectors  |-> <<[floor |-> "FLOOR", ceiling |-> "F_SKY1", special |-> 0, tag |-> 0]>>,
     sidedefs |-> <<[top |-> "-", bottom |-> "-", middle |-> "WALL", sector |-> 0]>>,
     vertexes |-> << <<0, 0>>, <<64, 0>> >>,
     linedefs |-> <<[v1 |-> 0, v2 |-> 1, side0 |-> 0, side1 |-> 65535]>>,
     gl_vert  |-> <<>>,
     gl_segs  |-> <<>>,
     gl_ssect |-> <<>>,
     gl_nodes |-> <<>>]

\* three sectors in a row, joined by two two-sided linedefs, with GL records
ThreeSectors ==
    [sectors  |-> <<[floor |-> "FLOOR", ceiling |-> "F_SKY1", special |-> 1, tag |-> 7],
                    [floor |-> "FLOOR", ceiling |-> "F_SKY1", special |-> 0, tag |-> 0],
                    [floor |-> "-", ceiling |-> "CEIL", special |-> 0, tag |-> 0]>>,
     sidedefs |-> <<[top |-> "WALL", bottom |-> "-", middle |-> "-", sector |-> 0],
                    [top |-> "-", bottom |-> "WALL", middle |-> "-", sector |-> 1],
                    [top |-> "WALL", bottom |-> "-", middle |-> "-", sector |-> 1],
                    [top |-> "F_SKY1", bottom |-> "-", middle |-> "-", sector |-> 2]>>,
     vertexes |-> << <<0, 0>>, <<64, 64>> >>,
     linedefs |-> <<[v1 |-> 0, v2 |-> 1, side0 |-> 0, side1 |-> 1],
                    [v1 |-> 1, v2 |-> 0, side0 |-> 2, side1 |-> 3]>>,
     gl_vert  |-> << <<32, 32>> >>,
     gl_segs  |-> <<[v1 |-> 0, v2 |-> 32768, linedef |-> 0, side |-> 0, partner |-> 1],
                    [v1 |-> 32768, v2 |-> 1, linedef |-> 1, side |-> 1, partner |-> 65535]>>,
     gl_ssect |-> <<[count |-> 1, first |-> 0], [count |-> 1, first |-> 1]>>,
     gl_nodes |-> <<[partition |-> 1, child0 |-> 32768, child1 |-> 32769],
                    [partition |-> 2, child0 |-> 0, child1 |-> 32769]>>]

BaseLevels == {OneSector, ThreeSectors}

LumpNames == {"sectors", "sidedefs", "vertexes", "linedefs",
              "gl_vert", "gl_segs", "gl_ssect", "gl_nodes"}

\* the 16-bit fields that hold an index or a count
IndexFields(lump) ==
    CASE lump = "sidedefs" -> {"sector"}
      [] lump = "linedefs" -> {"v1", "v2", "side0", "side1"}
      [] lump = "gl_segs"  -> {"v1", "v2", "linedef", "side", "partner"}
      [] lump = "gl_ssect" -> {"count", "first"}
      [] lump = "gl_nodes" -> {"child0", "child1"}
      [] OTHER -> {}

\* the 8-byte name fields
NameFields(lump) ==
    CASE lump = "sectors"  -> {"floor", "ceiling"}
      [] lump = "sidedefs" -> {"top", "bottom", "middle"}
      [] OTHER -> {}

\* values of a 16-bit field: small indices, tagged indices, 0xFFFF
U16Values == {0, 1, 2, 32768, 32769, 65535}

NameValues == {"-", "F_SKY1", "WALL", "SKY1"}

\* a mutation sets one field of one record; field "drop" removes the last record
IndexMutations(base) ==
    {[lump |-> l, k |-> k, field |-> f, val |-> v] :
        l \in {"sidedefs"}, k \in 1 .. Len(base.sidedefs), f \in IndexFields("sidedefs"), v \in U16Values}
    \cup {[lump |-> l, k |-> k, field |-> f, val |-> v] :
        l \in {"linedefs"}, k \in 1 .. Len(base.linedefs), f \in IndexFields("linedefs"), v \in U16Values}
    \cup {[lump |-> l, k |-> k, field |-> f, val |-> v] :
        l \in {"gl_segs"}, k \in 1 .. Len(base.gl_segs), f \in IndexFields("gl_segs"), v \in U16Values}
    \cup {[lump |-> l, k |-> k, field |-> f, val |-> v] :
        l \in {"gl_ssect"}, k \in 1 .. Len(base.gl_ssect), f \in IndexFields("gl_ssect"), v \in U16Values}
    \cup {[lump |-> l, k |-> k, field |-> f, val |-> v] :
        l \in {"gl_nodes"}, k \in 1 .. Len(base.gl_nodes), f \in IndexFields("gl_nodes"), v \in U16Values}
    \cup {[lump |-> l, k |-> 0, field |-> "drop", val |-> 0] : l \in {m \in LumpNames : base[m] # <<>>}}

NameMutations(base) ==
    {[lump |-> l, k |-> k, field |-> f, val |-> v] :
        l \in {"sectors"}, k \in 1 .. Len(base.sectors), f \in NameFields("sectors"), v \in NameValues}
    \cup {[lump |-> l, k |-> k, field |-> f, val |-> v] :
        l \in {"sidedefs"}, k \in 1 .. Len(base.sidedefs), f \in NameFields("sidedefs"), v \in NameValues}

\* the level after one mutation
Mutate(base, m) ==
    [l \in LumpNames |->
        IF l # m.lump THEN base[l]
        ELSE IF m.field = "drop" THEN SubSeq(base[l], 1, Len(base[l]) - 1)
        ELSE [base[l] EXCEPT ![m.k] = [f \in DOMAIN @ |-> IF f = m.field THEN m.val ELSE @[f]]]]

(***************************************************************************)
(* load_map (src/main.rs, lines 386-406): the level is loaded through the  *)
(* Map table of the registry and built by build_waiting with build_map as  *)
(* build_func.                                                             *)
(***************************************************************************)
\* names of flats and wall textures the data source holds
TextureNames == {"FLOOR", "CEIL", "WALL", "F_SKY1", "SKY1"}

\* the names the data source decodes: the level only if Map::import accepts it
Decodable(l) == TextureNames \cup (IF import_map(l).ok THEN {LevelName} ELSE {})

MapInit ==
    /\ lumps \in BaseLevels
    /\ reg = [handle_allocator |-> [highest_id |-> 0, unused_ids |-> <<>>],
              storages |-> [u \in {"Map", "Flat", "WallTexture"} |-> AssetStorageTyped]]
    /\ arcs = <<>>
    /\ owner = <<>>
    /\ named = [t \in Types, n \in Names |-> NoHandle]
    /\ held = {}
    /\ source = TextureNames
    /\ stack = <<>>
    /\ ret = [op |-> "new", t |-> "", n |-> NoName, h |-> NoHandle, decoded |-> FALSE, v |-> NoValue, prev |-> NoHandle]
    /\ aborted = FALSE
    /\ log = <<>>
    /\ imported = NoImport
    /\ built = NoBuild
    /\ edits = 0
    /\ pc = "start"
    /\ decoder = NoDecoder

\* the level in the data source differs from a well-formed one in some fields
EditIndex ==
    /\ pc = "start"
    /\ edits < MaxMutations
    /\ \E m \in IndexMutations(lumps) : lumps' = Mutate(lumps, m)
    /\ edits' = edits + 1
    /\ UNCHANGED <<reg, arcs, owner, named, held, source, stack, ret, aborted, log, imported, built, pc, decoder>>

EditName ==
    /\ pc = "start"
    /\ edits < MaxMutations
    /\ \E m \in NameMutations(lumps) : lumps' = Mutate(lumps, m)
    /\ edits' = edits + 1
    /\ UNCHANGED <<reg, arcs, owner, named, held, source, stack, ret, aborted, log, imported, built, pc, decoder>>

\* the allocations a call made belong to the names that now map to them
Owners(r, from, to) ==
    [k \in 1 .. (to - from) |->
        CHOOSE tn \in {<<t, n>> : t \in DOMAIN r.storages,
                                  n \in UNION {DOMAIN r.storages[u].names : u \in DOMAIN r.storages}} :
            MapGet(r.storages[tn[1]].names, tn[2], NoHandle) = from + k]

\* line 394: map_storage.load(name), which runs Map::import
MapLoad ==
    /\ pc = "start"
    /\ LET res == load(reg, arcs, "Map", LevelName, Decodable(lumps), Live)
       IN /\ reg' = res.reg
          /\ arcs' = res.arcs
          /\ owner' = Append(owner, <<"Map", LevelName>>)
          /\ held' = held \cup {res.h}
          /\ ret' = [op |-> "load", t |-> "Map", n |-> LevelName, h |-> res.h,
                     decoded |-> res.decoded, v |-> NoValue, prev |-> NoHandle]
    /\ log' = Append(log, [h |-> Len(arcs) + 1, what |-> "load"])
    /\ imported' = import_map(lumps)
    /\ pc' = "loaded"
    /\ UNCHANGED <<named, source, stack, aborted, lumps, built, edits, decoder>>

\* line 395: map_storage.build_waiting, up to the call of build_map
MapBuildWaiting ==
    /\ pc = "loaded"
    /\ reg' = [reg EXCEPT !.storages["Map"].unbuilt = <<>>]
    /\ stack' = advance(stack, "Map", reg.storages["Map"].unbuilt, reg.storages["Map"].unbuilt)
    /\ log' = log \o DrainEvents(reg.storages["Map"].unbuilt, stack, stack')
    /\ pc' = IF stack' = <<>> THEN "done" ELSE "building"
    /\ ret' = [op |-> "build_waiting", t |-> "Map", n |-> NoName, h |-> NoHandle,
               decoded |-> FALSE, v |-> NoValue, prev |-> NoHandle]
    /\ UNCHANGED <<arcs, owner, named, held, source, aborted, lumps, imported, built, edits, decoder>>

\* lines 396-403: build_map runs and build_waiting finishes
MapBuildFunc ==
    /\ pc = "building"
    /\ \E res \in {build_map(imported.data, SkyName,
                             [reg |-> reg, arcs |-> arcs, source |-> source, ext |-> held,
                              flats |-> [n \in {} |-> NoHandle],
                              textures |-> [n \in {} |-> NoHandle],
                              sky |-> NoHandle, last |-> NoHandle, requests |-> <<>>])} :
          /\ built' = [status |-> res.status, err |-> res.err, map |-> res.map,
                       sidedefs |-> res.sidedefs, requests |-> res.bs.requests]
          /\ arcs' = res.bs.arcs
          /\ owner' = owner \o Owners(res.bs.reg, Len(arcs), Len(res.bs.arcs))
          /\ log' = log \o [k \in 1 .. (Len(res.bs.arcs) - Len(arcs)) |->
                               [h |-> Len(arcs) + k, what |-> "load"]]
                      \o (IF res.status = "panic" THEN <<>>
                          ELSE <<[h |-> stack[Len(stack)].cur.handle,
                                  what |-> IF res.status = "ok" THEN "ok" ELSE "err"]>>)
          /\ IF res.status = "panic"
             THEN /\ aborted' = TRUE
                  /\ reg' = res.bs.reg
                  /\ UNCHANGED <<stack, held>>
             ELSE /\ \E fin \in {build_return(res.bs.reg, res.bs.arcs, stack, res.status = "ok")} :
                        reg' = fin.reg /\ stack' = fin.stack
                  /\ held' = held \cup (IF res.status = "ok" THEN BuilderStrong(res.bs) \ {NoHandle}
                                        ELSE {})
                  /\ UNCHANGED aborted
    /\ pc' = "done"
    /\ ret' = [op |-> "build_map", t |-> "Map", n |-> LevelName, h |-> NoHandle,
               decoded |-> FALSE, v |-> NoValue, prev |-> NoHandle]
    /\ UNCHANGED <<named, source, lumps, imported, edits, decoder>>

MapNext == EditIndex \/ EditName \/ MapLoad \/ MapBuildWaiting \/ MapBuildFunc

SpecMap == MapInit /\ [][MapNext]_vars

(***************************************************************************)
(* One decoder applied to one buffer.                                      *)
(***************************************************************************)
DecInit ==
    /\ reg = [handle_allocator |-> [highest_id |-> 0, unused_ids |-> <<>>],
              storages |-> [u \in {} |-> AssetStorageTyped]]
    /\ arcs = <<>>
    /\ owner = <<>>
    /\ named = [t \in Types, n \in Names |-> NoHandle]
    /\ held = {}
    /\ source = GoodNames
    /\ stack = <<>>
    /\ ret = [op |-> "new", t |-> "", n |-> NoName, h |-> NoHandle, decoded |-> FALSE, v |-> NoValue, prev |-> NoHandle]
    /\ aborted = FALSE
    /\ log = <<>>
    /\ lumps = NoLumps
    /\ imported = NoImport
    /\ built = NoBuild
    /\ edits = 0
    /\ pc = "off"
    /\ decoder \in {[format |-> f, len |-> n, magic |-> m, badname |-> b,
                     status |-> "new", count |-> 0, err |-> ""] :
                       f \in Formats, n \in 0 .. MaxBytes, m \in BOOLEAN, b \in 0 .. 2}

\* AssetFormat::import runs on the buffer
ImportLump ==
    /\ decoder.status = "new"
    /\ \E res \in {import_lump(decoder.format, decoder.len, decoder.magic, decoder.badname)} :
          decoder' = [decoder EXCEPT !.status = res.status, !.count = res.count, !.err = res.err]
    /\ UNCHANGED regvars
    /\ UNCHANGED <<lumps, imported, built, edits, pc>>

DecNext == ImportLump

SpecDecode == DecInit /\ [][DecNext]_vars

(***************************************************************************)
(* Properties of the asset registry                                        *)
(***************************************************************************)
\* the live allocations that were made for name n of type t
LiveEntries(t, n) == {h \in 1 .. Len(arcs) : owner[h] = <<t, n>> /\ h \in Live}

\* the queued entries for name n of type t, in the table or in a running drain
Pending(t, n) ==
    {<<0, k>> : k \in {j \in 1 .. (IF Registered(t) THEN Len(reg.storages[t].unbuilt) ELSE 0) :
                          reg.storages[t].unbuilt[j].name = n}}
    \cup {p \in (1 .. Len(stack)) \X (0 .. Len(arcs)) :
             /\ stack[p[1]].t = t
             /\ \/ p[2] = 0 /\ stack[p[1]].cur.name = n
                \/ p[2] \in 1 .. Len(stack[p[1]].rest) /\ stack[p[1]].rest[p[2]].name = n}

\* a step that is a call of load(t, n) that returned
LoadStep(t, n) ==
    /\ ret'.op = "load" /\ ret'.t = t /\ ret'.n = n
    /\ ~aborted'
    /\ held \subseteq held'
    /\ <<reg, arcs, held, ret>> # <<reg', arcs', held', ret'>>

\* C1: a load of name n of type t made while an entry for n is live returns the
\* handle of that entry, runs no decode step and enqueues nothing; a load made
\* while none is live decodes and enqueues one entry; there is never more than
\* one live entry or more than one pending entry for a name
C1_LoadReturnsLiveHandle ==
    [][\A t \in Types, n \in Names :
          LoadStep(t, n) =>
             /\ IF LiveEntries(t, n) # {}
                THEN /\ ret'.h \in LiveEntries(t, n)
                     /\ ~ret'.decoded
                     /\ arcs' = arcs
                     /\ reg'.storages[t].unbuilt = reg.storages[t].unbuilt
                ELSE /\ ret'.decoded
                     /\ ret'.h = Len(arcs) + 1
                     /\ Len(reg'.storages[t].unbuilt) = Len(reg.storages[t].unbuilt) + 1
             /\ Cardinality(LiveEntries(t, n)') = 1
             /\ Cardinality(Pending(t, n)') <= 1]_vars

\* two loads of one name before the build phase: the second returned the handle
\* of the single pending entry without decoding
C1_Witness ==
    /\ ret.op = "load" /\ ~aborted /\ ~ret.decoded
    /\ Cardinality(Pending(ret.t, ret.n)) = 1
    /\ \E k \in 1 .. Len(reg.storages[ret.t].unbuilt) :
          /\ reg.storages[ret.t].unbuilt[k].handle = ret.h
          /\ reg.storages[ret.t].unbuilt[k].name = ret.n

\* C10: ids are handed out in strictly increasing order, so no two allocations
\* share an id and handles with equal ids are the same allocation
C10_IdsStrictlyIncrease ==
    /\ \A i \in 1 .. Len(arcs), j \in 1 .. Len(arcs) : i < j => arcs[i] < arcs[j]
    /\ \A i \in 1 .. Len(arcs) : arcs[i] <= reg.handle_allocator.highest_id
    /\ \A i \in 1 .. Len(arcs), j \in 1 .. Len(arcs) : arcs[i] = arcs[j] => i = j

\* two allocations were made, the first of them still strongly held
C10_Witness == Len(arcs) >= 2 /\ 1 \in Live

\* a step that is a call of insert_with_name(t, n, _) that returned
InsertWithNameStep(t, n) ==
    /\ ret'.op = "insert_with_name" /\ ret'.t = t /\ ret'.n = n
    /\ ~aborted'
    /\ held \subseteq held'
    /\ <<reg, arcs, held, ret>> # <<reg', arcs', held', ret'>>

\* what a repeated insert_with_name(t, n, v) is claimed to do
SecondInsertReplaces(t, n) ==
    /\ ret'.h = named[t, n]
    /\ Cardinality({k \in 1 .. Len(reg'.storages[t].handles) :
                       reg'.storages[t].handles[k] = ret'.h}) <= 1
    /\ Len(reg'.storages[t].handles) <= Len(reg.storages[t].handles) + 1
    /\ get_by_name(reg', arcs', t, n, Strong(reg', held', stack')) = ret'.v
    /\ get(reg', arcs', t, ret'.h) = ret'.v

Imported == pc \in {"loaded", "building", "done"}

BuiltOk == built.status = "ok"

\* every index of the decoded records is inside the array it points into
AllInBounds(d) ==
    /\ \A k \in 1 .. Len(d.sidedefs) : d.sidedefs[k].sector_index < Len(d.sectors)
    /\ \A k \in 1 .. Len(d.linedefs) : \A j \in 1 .. 2 :
          /\ d.linedefs[k].sidedef_indices[j].some
                => d.linedefs[k].sidedef_indices[j].v < Len(d.sidedefs)
          /\ d.linedefs[k].vertex_indices[j] < Len(d.vertexes)
    /\ \A k \in 1 .. Len(d.gl_segs) :
          /\ d.gl_segs[k].linedef_index.some => d.gl_segs[k].linedef_index.v < Len(d.linedefs)
          /\ d.gl_segs[k].partner_seg_index.some
                => d.gl_segs[k].partner_seg_index.v < Len(d.gl_segs)
          /\ \A j \in 1 .. 2 :
                d.gl_segs[k].vertex_indices[j].v <
                   (IF d.gl_segs[k].vertex_indices[j].gl THEN Len(d.gl_vert) ELSE Len(d.vertexes))
    /\ \A k \in 1 .. Len(d.gl_ssect) :
          /\ d.gl_ssect[k].first_seg_index < Len(d.gl_segs)
          /\ d.gl_ssect[k].first_seg_index + d.gl_ssect[k].seg_count <= Len(d.gl_segs)
    /\ \A k \in 1 .. Len(d.gl_nodes) : \A j \in 1 .. 2 :
          d.gl_nodes[k].child_indices[j].v <
             (IF d.gl_nodes[k].child_indices[j].leaf THEN Len(d.gl_ssect) ELSE Len(d.gl_nodes))

\* C3: Map::import returns MapData if and only if every decoded index (linedef
\* vertex endpoints included) is in bounds, and after an error nothing is built
C3_ValidatorAcceptsIffInBounds ==
    Imported =>
       /\ imported.ok <=> AllInBounds(Decode(lumps))
       /\ ~imported.ok => (built.status = "none" /\ imported.data = NoMapData)

\* C4: build_map on MapData that the validator accepted, all of whose indices
\* are in bounds, returns a Map or a build error and never aborts
C4_BuildNeverAborts ==
    (imported.ok /\ AllInBounds(imported.data)) => (built.status # "panic" /\ ~aborted)

\* the two-sided linedefs of the MapData that join sectors s and t
Joining(d, s, t) ==
    {k \in 1 .. Len(d.linedefs) :
        /\ d.linedefs[k].sidedef_indices[1].some
        /\ d.linedefs[k].sidedef_indices[2].some
        /\ {d.sidedefs[d.linedefs[k].sidedef_indices[1].v + 1].sector_index,
            d.sidedefs[d.linedefs[k].sidedef_indices[2].v + 1].sector_index} = {s, t}}

SectorIds(d) == 0 .. (Len(d.sectors) - 1)

\* C5: in a built Map, t is a neighbour of s exactly if s # t and a two-sided
\* linedef joins them; the relation is symmetric and no list has duplicates
C5_NeighboursAreJoinedSectors ==
    BuiltOk =>
       /\ Len(built.map.sectors) = Len(imported.data.sectors)
       /\ \A s \in SectorIds(imported.data) :
             LET nb == built.map.sectors[s + 1].neighbours
             IN /\ \A t \in SectorIds(imported.data) :
                      Contains(nb, t) <=> (s # t /\ Joining(imported.data, s, t) # {})
                /\ \A t \in Range(nb) :
                      /\ t \in SectorIds(imported.data)
                      /\ Contains(built.map.sectors[t + 1].neighbours, s)
                /\ \A i \in 1 .. Len(nb), j \in 1 .. Len(nb) : nb[i] = nb[j] => i = j

\* a Map was built in which two linedefs join the same pair of sectors
C5_Witness ==
    /\ BuiltOk
    /\ \E s \in SectorIds(imported.data), t \in SectorIds(imported.data) :
          s # t /\ Cardinality(Joining(imported.data, s, t)) >= 2
             /\ Contains(built.map.sectors[s + 1].neighbours, t)

SkyCeiling(d, s) ==
    d.sectors[s + 1].ceiling_flat_name.some /\ d.sectors[s + 1].ceiling_flat_name.v = "F_SKY1"

\* the top texture a sidedef resolves to by itself
ResolvedTop(d, x) ==
    LET name == d.sidedefs[x + 1].top_texture_name
    IN IF ~name.some THEN TexNone
       ELSE IF name.v = "F_SKY1" THEN TexSky
       ELSE TexNormal(MapGet(reg.storages["WallTexture"].names, name.v, NoHandle))

\* C6: both top textures of a two-sided linedef between two sectors with Sky
\* ceilings are Sky; otherwise each keeps the value it resolves to by itself
C6_SkyHack ==
    BuiltOk =>
       \A k \in 1 .. Len(imported.data.linedefs) :
          LET ld == imported.data.linedefs[k]
              x0 == ld.sidedef_indices[1].v
              x1 == ld.sidedef_indices[2].v
              out == built.map.linedefs[k].sidedefs
          IN (ld.sidedef_indices[1].some /\ ld.sidedef_indices[2].some) =>
                IF SkyCeiling(imported.data, imported.data.sidedefs[x0 + 1].sector_index)
                      /\ SkyCeiling(imported.data, imported.data.sidedefs[x1 + 1].sector_index)
                THEN out[1].v.top_texture = TexSky /\ out[2].v.top_texture = TexSky
                ELSE /\ out[1].v.top_texture = ResolvedTop(imported.data, x0)
                     /\ out[2].v.top_texture = ResolvedTop(imported.data, x1)
                     /\ out[1].v.top_texture.kind = "Normal" => out[1].v.top_texture.h # NoHandle

\* a Map was built with a two-sided linedef between two Sky ceilings whose
\* sidedef carries an explicit top texture name, and with one that is not
\* between two Sky ceilings and keeps a Normal top texture
C6_Witness ==
    /\ BuiltOk
    /\ \E k \in 1 .. Len(imported.data.linedefs) :
          LET ld == imported.data.linedefs[k]
          IN /\ ld.sidedef_indices[1].some /\ ld.sidedef_indices[2].some
             /\ ResolvedTop(imported.data, ld.sidedef_indices[1].v).kind = "Normal"
             /\ built.map.linedefs[k].sidedefs[1].v.top_texture = TexSky
    /\ \E k \in 1 .. Len(imported.data.linedefs) :
          LET ld == imported.data.linedefs[k]
          IN /\ ld.sidedef_indices[1].some /\ ld.sidedef_indices[2].some
             /\ built.map.linedefs[k].sidedefs[1].v.top_texture.kind = "Normal"

\* C7: the built node array has the length N of the input array, built node
\* i comes from input node N-1-i, an internal child x becomes N-1-x and still
\* denotes the node it denoted, and a leaf child is copied unchanged
C7_NodesReversedAndReindexed ==
    BuiltOk =>
       LET datas == imported.data.gl_nodes
           N == Len(datas)
           nodes == built.map.nodes
       IN /\ Len(nodes) = N
          /\ \A i \in 0 .. (N - 1) :
                /\ nodes[i + 1].partition = datas[(N - 1 - i) + 1].partition
                /\ \A j \in 1 .. 2 :
                      LET old == datas[(N - 1 - i) + 1].child_indices[j]
                          new == nodes[i + 1].child_indices[j]
                      IN IF old.leaf
                         THEN new = old
                         ELSE /\ ~new.leaf
                              /\ new.v = N - 1 - old.v
                              /\ nodes[new.v + 1].partition = datas[old.v + 1].partition

\* a Map was built from two or more nodes with an internal child that moves and
\* a leaf child
C7_Witness ==
    /\ BuiltOk
    /\ Len(built.map.nodes) >= 2
    /\ \E i \in 1 .. Len(imported.data.gl_nodes) : \E j \in 1 .. 2 :
          LET old == imported.data.gl_nodes[i].child_indices[j]
          IN ~old.leaf /\ old.v # Len(imported.data.gl_nodes) - 1 - old.v
    /\ \E i \in 1 .. Len(built.map.nodes) : \E j \in 1 .. 2 :
          built.map.nodes[i].child_indices[j].leaf

\* C8: every index stored in a built Map is in bounds
C8_StoredIndicesInBounds ==
    BuiltOk =>
       LET m == built.map
       IN /\ \A k \in 1 .. Len(m.linedefs) : \A j \in 1 .. 2 :
                m.linedefs[k].sidedefs[j].some
                   => m.linedefs[k].sidedefs[j].v.sector_index < Len(m.sectors)
          /\ \A k \in 1 .. Len(m.sectors) :
                /\ \A t \in Range(m.sectors[k].neighbours) : t < Len(m.sectors)
                /\ \A u \in Range(m.sectors[k].subsectors) : u < Len(m.subsectors)
          /\ \A k \in 1 .. Len(m.subsectors) :
                /\ m.subsectors[k].sector_index < Len(m.sectors)
                /\ \A g \in 1 .. Len(m.subsectors[k].segs) :
                      m.subsectors[k].segs[g].linedef_index.some
                         => m.subsectors[k].segs[g].linedef_index.v < Len(m.linedefs)
          /\ \A k \in 1 .. Len(m.nodes) : \A j \in 1 .. 2 :
                m.nodes[k].child_indices[j].v <
                   (IF m.nodes[k].child_indices[j].leaf THEN Len(m.subsectors)
                    ELSE Len(m.nodes))

\* a Map with subsectors, segs on linedefs, nodes and neighbours was built from
\* a level that was edited
C8_Witness ==
    /\ BuiltOk
    /\ edits > 0
    /\ Len(built.map.nodes) > 0
    /\ \E k \in 1 .. Len(built.map.subsectors) :
          \E g \in 1 .. Len(built.map.subsectors[k].segs) :
             built.map.subsectors[k].segs[g].linedef_index.some
    /\ \E k \in 1 .. Len(built.map.sectors) :
          built.map.sectors[k].neighbours # <<>> /\ built.map.sectors[k].subsectors # <<>>

\* a level of one sector with floor "FLOOR" and ceiling "F_SKY1" and one
\* linedef between two of its vertexes whose only sidedef faces that sector
C9_Level(d) ==
    /\ Len(d.sectors) = 1
    /\ d.sectors[1].floor_flat_name = Some("FLOOR")
    /\ d.sectors[1].ceiling_flat_name = Some("F_SKY1")
    /\ Len(d.linedefs) = 1
    /\ \A j \in 1 .. 2 : d.linedefs[1].vertex_indices[j] < Len(d.vertexes)
    /\ \E j \in 1 .. 2 :
          /\ d.linedefs[1].sidedef_indices[j].some
          /\ ~d.linedefs[1].sidedef_indices[3 - j].some
          /\ d.linedefs[1].sidedef_indices[j].v < Len(d.sidedefs)
          /\ d.sidedefs[d.linedefs[1].sidedef_indices[j].v + 1].sector_index = 0
    /\ \A k \in 1 .. Len(d.sidedefs) : d.sidedefs[k].sector_index = 0
    /\ d.gl_segs = <<>> /\ d.gl_ssect = <<>> /\ d.gl_nodes = <<>>

\* C9: such a level passes validation and builds a Map with one Sector (floor
\* Normal(handle), ceiling Sky, no neighbours) and one Linedef with exactly one
\* of its two sidedef slots resolved
C9_OneSectorEndToEnd ==
    (C9_Level(Decode(lumps)) /\ pc = "done") =>
       /\ imported.ok
       /\ BuiltOk
       /\ Len(built.map.sectors) = 1
       /\ built.map.sectors[1].floor_texture
             = TexNormal(MapGet(reg.storages["Flat"].names, "FLOOR", NoHandle))
       /\ built.map.sectors[1].floor_texture.h \in Live \ {NoHandle}
       /\ built.map.sectors[1].ceiling_texture = TexSky
       /\ built.map.sectors[1].neighbours = <<>>
       /\ Len(built.map.linedefs) = 1
       /\ \E j \in 1 .. 2 :
             /\ built.map.linedefs[1].sidedefs[j].some
             /\ ~built.map.linedefs[1].sidedefs[3 - j].some
             /\ built.map.linedefs[1].sidedefs[j].v.sector_index = 0

\* the unedited one-sector level was loaded and built
C9_Witness == lumps = OneSector /\ C9_Level(Decode(lumps)) /\ pc = "done" /\ BuiltOk

(***************************************************************************)
(* Properties of build_waiting                                             *)
(***************************************************************************)
\* the history holds the event w for allocation h
Has(l, h, w) == \E i \in 1 .. Len(l) : l[i] = [h |-> h, what |-> w]

\* this step is the return of a build_waiting call
DrainReturns ==
    \/ Len(stack') < Len(stack)
    \/ stack' = stack /\ reg' # reg /\ ret'.op = "build_waiting"

\* the type and the batch of the build_waiting call that returns in this step
ReturnedType == IF Len(stack') < Len(stack) THEN stack[Len(stack)].t ELSE ret'.t

ReturnedBatch ==
    IF Len(stack') < Len(stack)
    THEN stack[Len(stack)].batch
    ELSE reg.storages[ret'.t].unbuilt

\* C11: when build_waiting returns, build_func was called for every entry of
\* its batch that decoded, whatever happened to the other entries, and every
\* entry that was built is resolvable by get and is in the iteration list
C11_FailureIsIsolated ==
    [][DrainReturns =>
         \A k \in 1 .. Len(ReturnedBatch) :
            LET e == ReturnedBatch[k]
            IN /\ e.data => Has(log', e.handle, "call") /\ ~Has(log', e.handle, "skip")
               /\ Has(log', e.handle, "ok") =>
                     /\ get(reg', arcs', ReturnedType, e.handle) # NoValue
                     /\ Contains(reg'.storages[ReturnedType].handles, e.handle)]_vars

\* a batch of two returned: build_func failed for the first entry and the
\* second entry was built
C11_Witness ==
    /\ stack = <<>>
    /\ \E a \in 1 .. Len(arcs), b \in 1 .. Len(arcs) :
          /\ a < b
          /\ owner[a][1] = owner[b][1]
          /\ Len(log) = 6
          /\ log[1] = [h |-> a, what |-> "load"]
          /\ log[2] = [h |-> b, what |-> "load"]
          /\ log[4] = [h |-> a, what |-> "err"]
          /\ log[6] = [h |-> b, what |-> "ok"]
          /\ get(reg, arcs, owner[b][1], b) # NoValue

\* the pending entry of allocation h failed in build_waiting
Failed(h) == Has(log, h, "skip") \/ Has(log, h, "err")

\* C12 as claimed: get with a handle whose pending entry failed returns absent
\* for as long as the handle exists, whatever was called since
C12_FailedHandleStaysUnresolved ==
    \A h \in Live : Failed(h) => get(reg, arcs, owner[h][1], h) = NoValue

\* C12: get with a handle whose pending entry failed returns absent for as
\* long as the handle exists, unless insert_with_name was called with the
\* name of the entry while the handle existed
C12_FailedHandleUnresolvedUnlessNamed ==
    \A h \in Live :
       (Failed(h) /\ named[owner[h][1], owner[h][2]] # h)
          => get(reg, arcs, owner[h][1], h) = NoValue

\* a later load of the name returned the handle of the failed entry, which is
\* still unresolved
C12_Witness ==
    \E h \in Live :
       /\ Failed(h)
       /\ ret.op = "load" /\ ret.h = h /\ ~ret.decoded
       /\ get(reg, arcs, owner[h][1], h) = NoValue

\* the operations of the registry that take an asset type
RegistryOps ==
    {"get", "get_by_name", "handle_for", "iter", "insert", "insert_with_name", "load",
     "build_waiting"}

\* C13: an operation invoked for an asset type without a table aborts
C13_UnknownTypeAborts ==
    [][(ret' # ret /\ ret'.op \in RegistryOps /\ ~Registered(ret'.t)) => aborted']_vars

\* this step is a load whose decode step failed
LoadFails == ret' # ret /\ ret'.op = "load" /\ ret'.decoded /\ ret'.n \notin source

\* the loop of build_waiting leaves allocation h behind in this step
SkippedNow(h) == Has(log', h, "skip") /\ ~Has(log, h, "skip")

\* C14: a load whose decode step fails returns a new handle without an error,
\* maps the name to it and queues the entry with the error; the build_waiting
\* that takes the entry does not call build_func for it, inserts no value for
\* it and does not add its handle to the iteration list
C14_DecodeFailureSurfacesInDrain ==
    [][/\ LoadFails =>
             LET t == ret'.t
                 tab == reg.storages[t]
                 tab2 == reg'.storages[t]
             IN /\ ~aborted'
                /\ ret'.h = Len(arcs') /\ Len(arcs') = Len(arcs) + 1
                /\ handle_for(reg', t, ret'.n, Strong(reg', held', stack')) = ret'.h
                /\ tab2.unbuilt = Append(tab.unbuilt,
                                         [handle |-> ret'.h, data |-> FALSE, name |-> ret'.n])
                /\ tab2.assets = tab.assets
                /\ tab2.handles = tab.handles
                /\ log' = Append(log, [h |-> ret'.h, what |-> "load"])
       /\ \A h \in 1 .. Len(arcs) :
             SkippedNow(h) =>
                LET t == owner[h][1]
                IN /\ MapGet(reg'.storages[t].assets, id(arcs, h), NoValue)
                         = MapGet(reg.storages[t].assets, id(arcs, h), NoValue)
                   /\ ~Contains(reg'.storages[t].handles, h)
       /\ \A h \in 1 .. Len(arcs') :
             (Has(log', h, "load") /\ owner'[h][2] \notin source) =>
                /\ ~Has(log', h, "call")
                /\ ~Contains(reg'.storages[owner'[h][1]].handles, h)]_vars

\* a handle returned by a load whose decode step failed is held by its caller
\* after the build_waiting that skipped its entry, and has no value
C14_Witness ==
    /\ stack = <<>>
    /\ \E h \in held :
          /\ Has(log, h, "load") /\ Has(log, h, "skip")
          /\ owner[h][2] \notin source
          /\ ret.op = "build_waiting"
          /\ get(reg, arcs, owner[h][1], h) = NoValue

(***************************************************************************)
(* Properties of iteration and of the name cache                           *)
(***************************************************************************)

\* the allocations of type t that get their first value in this step
PlacedNow(t) ==
    {h \in 1 .. Len(arcs') :
        /\ owner'[h][1] = t
        /\ MapGet(reg'.storages[t].assets, id(arcs', h), NoValue) # NoValue
        /\ \/ h > Len(arcs)
           \/ MapGet(reg.storages[t].assets, id(arcs, h), NoValue) = NoValue}

\* C15: the iteration list of a type holds every entry that was given a value,
\* once, in the order in which the values were placed: a step that places the
\* first value of an entry appends its handle, and every other step leaves
\* the list as it is
C15_IterationInPlacementOrder ==
    [][\A t \in Types :
          (Registered(t) /\ reg'.storages[t] # reg.storages[t]) =>
             \/ /\ PlacedNow(t) = {}
                /\ reg'.storages[t].handles = reg.storages[t].handles
             \/ \E h \in PlacedNow(t) :
                   /\ PlacedNow(t) = {h}
                   /\ reg'.storages[t].handles = Append(reg.storages[t].handles, h)]_vars

\* allocation h was given a value by insert, by an allocating
\* insert_with_name or by a successful build
BuiltEntry(h) ==
    Has(log, h, "insert") \/ Has(log, h, "insert_with_name") \/ Has(log, h, "ok")

\* C16: a name whose entry has no strong handle left (no caller holds one and
\* neither the pending queue, a running drain nor the iteration list does)
\* resolves to nothing through handle_for and get_by_name; and get with a
\* strong handle of a built entry returns the value of the entry
C16_NameCacheIsWeak ==
    \A t \in DOMAIN reg.storages :
       /\ \A n \in DOMAIN reg.storages[t].names :
             reg.storages[t].names[n] \notin Live =>
                /\ handle_for(reg, t, n, Live) = NoHandle
                /\ get_by_name(reg, arcs, t, n, Live) = NoValue
       /\ \A h \in Live :
             (owner[h][1] = t /\ BuiltEntry(h)) =>
                get(reg, arcs, t, h) \in {Built(owner[h][2])} \cup Given

\* the last strong handle of a named entry is gone while a value is still
\* stored under its id, and another named entry is built and alive
C16_Witness ==
    \E t \in DOMAIN reg.storages :
       /\ \E n \in DOMAIN reg.storages[t].names :
             /\ reg.storages[t].names[n] \notin Live
             /\ id(arcs, reg.storages[t].names[n]) \in DOMAIN reg.storages[t].assets
             /\ get_by_name(reg, arcs, t, n, Live) = NoValue
       /\ \E h \in Live : owner[h][1] = t /\ Has(log, h, "ok")

(***************************************************************************)
(* Properties of load_map                                                  *)
(***************************************************************************)

\* the handle load_map got from load
MapHandle == MapGet(reg.storages["Map"].names, LevelName, NoHandle)

\* this step runs build_waiting for the Map type, or its call of build_map
MapDrainStep == pc \in {"loaded", "building"} /\ pc' # pc

\* C17: when the import of the level or build_map fails, the build_waiting of
\* load_map leaves the values and the iteration list of the Map table as they
\* were, and when it has returned get with the handle of the level is absent
C17_FailedMapNotPublished ==
    [][(MapDrainStep /\ ~aborted' /\ (~imported.ok \/ built'.status = "err")) =>
          /\ reg'.storages["Map"].assets = reg.storages["Map"].assets
          /\ reg'.storages["Map"].handles = reg.storages["Map"].handles
          /\ pc' = "done" =>
                /\ stack' = <<>>
                /\ reg'.storages["Map"].unbuilt = <<>>
                /\ get(reg', arcs', "Map", MapHandle') = NoValue]_vars

\* build_map failed after it had loaded a flat for the level, and build_waiting
\* returned with nothing in the Map table
C17_Witness ==
    /\ pc = "done" /\ ~aborted
    /\ imported.ok /\ built.status = "err"
    /\ reg.storages["Flat"].unbuilt # <<>>
    /\ MapHandle \in held
    /\ get(reg, arcs, "Map", MapHandle) = NoValue
    /\ reg.storages["Map"].handles = <<>>

\* the import failed and build_waiting returned without calling build_map
C17_WitnessImport ==
    /\ pc = "done" /\ ~imported.ok /\ built.status = "none"
    /\ get(reg, arcs, "Map", MapHandle) = NoValue

(***************************************************************************)
(* Properties of the loop of build_waiting                                 *)
(***************************************************************************)

\* the places of history l at which the loop of a build_waiting reached the
\* entry of allocation h
Processed(l, h) == {i \in 1 .. Len(l) : l[i].h = h /\ l[i].what \in {"skip", "call"}}

\* the handles of the entries in the pending queues of registry r
Queued(r) == UNION {{e.handle : e \in Range(r.storages[t].unbuilt)} : t \in DOMAIN r.storages}

\* C18: when build_waiting returns, the loop has reached every entry of the
\* batch it took exactly once and in queue order, build_func was called only
\* for entries that decoded, and no entry of the batch is pending; at any
\* time no entry is reached twice, and an entry that failed is not pending
C18_DrainProcessesEachOnce ==
    [][/\ DrainReturns =>
             \A k \in 1 .. Len(ReturnedBatch) :
                LET e == ReturnedBatch[k]
                IN /\ Cardinality(Processed(log', e.handle)) = 1
                   /\ Has(log', e.handle, "call") => e.data
                   /\ e.handle \notin Queued(reg')
                   /\ \A j \in 1 .. (k - 1) :
                         \A a \in Processed(log', ReturnedBatch[j].handle),
                            b \in Processed(log', e.handle) : a < b
       /\ \A h \in 1 .. Len(arcs') :
             /\ Cardinality(Processed(log', h)) <= 1
             /\ (Has(log', h, "skip") \/ Has(log', h, "err") \/ Has(log', h, "ok"))
                   => h \notin Queued(reg')]_vars

\* a build_waiting that took two entries has returned: the first entry was
\* left behind because its decode step had failed, then build_func was called
\* for the second and failed, and the queue is empty
C18_Witness ==
    /\ stack = <<>>
    /\ ret.op = "build_err"
    /\ \E a \in 1 .. Len(arcs), b \in 1 .. Len(arcs) :
          /\ a < b /\ owner[a][1] = owner[b][1]
          /\ log = <<[h |-> a, what |-> "load"], [h |-> b, what |-> "load"],
                     [h |-> a, what |-> "skip"], [h |-> b, what |-> "call"],
                     [h |-> b, what |-> "err"]>>
          /\ reg.storages[owner[a][1]].unbuilt = <<>>

(***************************************************************************)
(* Properties of the subsectors of build_map                               *)
(***************************************************************************)

\* the segs of subsector k of decoded level d (numbered from 1) that lie on a
\* linedef with a sidedef on the side of the seg
OwnerSegs(d, k) ==
    {i \in (d.gl_ssect[k].first_seg_index + 1) ..
           (d.gl_ssect[k].first_seg_index + d.gl_ssect[k].seg_count) :
        /\ i <= Len(d.gl_segs)
        /\ d.gl_segs[i].linedef_index.some
        /\ d.gl_segs[i].linedef_index.v < Len(d.linedefs)
        /\ d.linedefs[d.gl_segs[i].linedef_index.v + 1]
              .sidedef_indices[d.gl_segs[i].linedef_side + 1].some}

Least(S) == CHOOSE i \in S : \A j \in S : i <= j

\* the sector of the sidedef the first of these segs lies on
OwnerSector(d, k) ==
    LET seg == d.gl_segs[Least(OwnerSegs(d, k))]
        sd == d.linedefs[seg.linedef_index.v + 1].sidedef_indices[seg.linedef_side + 1].v
    IN d.sidedefs[sd + 1].sector_index

\* the subsectors of d without such a seg
Ownerless(d) == {k \in 1 .. Len(d.gl_ssect) : OwnerSegs(d, k) = {}}

\* C19: when build_map returns for a level the validator accepted, either
\* every subsector has a seg on a linedef with a sidedef on the seg's side and
\* the Map's subsector belongs to the sector of the first such seg's sidedef,
\* or the result is the error "No sector could be found for subsector i" for
\* the first subsector i without such a seg, and there is no Map
C19_SubsectorOwner ==
    (pc = "done" /\ imported.ok /\ built.status \in {"ok", "err"}) =>
       IF Ownerless(imported.data) = {}
       THEN /\ built.status = "ok"
            /\ Len(built.map.subsectors) = Len(imported.data.gl_ssect)
            /\ \A k \in 1 .. Len(imported.data.gl_ssect) :
                  built.map.subsectors[k].sector_index = OwnerSector(imported.data, k)
       ELSE /\ built.status = "err"
            /\ built.err = <<"No sector could be found for subsector",
                             Least(Ownerless(imported.data)) - 1, 0>>
            /\ built.map = NoMap

\* a Map was built in which the first seg of a subsector is on no linedef and
\* the owner comes from a later seg of the range
C19_Witness ==
    /\ pc = "done" /\ imported.ok /\ built.status = "ok"
    /\ \E k \in 1 .. Len(imported.data.gl_ssect) :
          /\ imported.data.gl_ssect[k].first_seg_index + 1 \notin OwnerSegs(imported.data, k)
          /\ built.map.subsectors[k].sector_index = OwnerSector(imported.data, k)

\* build_map failed for a subsector with segs none of which has an owner
C19_WitnessNoOwner ==
    /\ pc = "done" /\ imported.ok /\ built.status = "err"
    /\ \E k \in Ownerless(imported.data) : imported.data.gl_ssect[k].seg_count > 0

\* build_map failed for a subsector with an empty range of segs
C19_WitnessEmptyRange ==
    /\ pc = "done" /\ imported.ok /\ built.status = "err"
    /\ \E k \in Ownerless(imported.data) : imported.data.gl_ssect[k].seg_count = 0

(***************************************************************************)
(* Properties of the lump decoders                                         *)
(***************************************************************************)

\* the size of a record: the widths of its fields added up
RECURSIVE Width(_, _)
Width(fields, i) == IF i > Len(fields) THEN 0 ELSE fields[i].w + Width(fields, i + 1)

RecordSize(format) == Width(Fields(format), 1)

\* import has returned for a buffer whose signature and names are good
DecodedClean ==
    /\ decoder.status \in {"ok", "err"}
    /\ decoder.badname = 0
    /\ Header(decoder.format) > 0 => decoder.magic

\* C20 as claimed: a decoder yields floor(length / record size) records for
\* every buffer length, the signature of the GL vertex lump not counted
C20_FloorOfLength ==
    (DecodedClean /\ decoder.len >= Header(decoder.format)) =>
       /\ decoder.status = "ok"
       /\ decoder.count = (decoder.len - Header(decoder.format)) \div RecordSize(decoder.format)

\* C20: a decoder yields length / record size records when the length of the
\* buffer, the signature of the GL vertex lump not counted, is a multiple of
\* the record size, and returns an error and no records for every other length
C20_WholeRecordsOrError ==
    DecodedClean =>
       IF /\ decoder.len >= Header(decoder.format)
          /\ (decoder.len - Header(decoder.format)) % RecordSize(decoder.format) = 0
       THEN /\ decoder.status = "ok"
            /\ decoder.count = (decoder.len - Header(decoder.format)) \div RecordSize(decoder.format)
       ELSE /\ decoder.status = "err"
            /\ decoder.count = 0

\* a buffer that holds two whole records and part of a third was rejected
C20_Witness ==
    /\ DecodedClean
    /\ decoder.status = "err"
    /\ decoder.err = "failed to fill whole buffer"
    /\ (decoder.len - Header(decoder.format)) \div RecordSize(decoder.format) = 2
    /\ (decoder.len - Header(decoder.format)) % RecordSize(decoder.format) # 0

\* a buffer of two whole records after the signature was decoded
C20_WitnessWhole ==
    /\ DecodedClean
    /\ decoder.status = "ok" /\ decoder.count = 2 /\ decoder.format = "gl_vert"

(***************************************************************************)
(* Properties of the order of the validator's checks                       *)
(***************************************************************************)

\* an out-of-range index of decoded level d: kind is its place in the list
\* sidedef->sector, linedef->sidedef, seg->linedef, seg->vertex, seg->partner,
\* subsector range, node->child; loop is the loop of the validator that finds
\* it, i its record (from 0), slot its place among the checks of the kind on
\* one record, and step its place among all checks on one record
Violation(kind, loop, i, slot, step, what, value) ==
    [kind |-> kind, loop |-> loop, i |-> i, slot |-> slot, step |-> step,
     msg |-> <<what, i, value>>]

SidedefViolations(d) ==
    {Violation(1, 1, k - 1, 1, 1, "Sidedef has invalid sector index", d.sidedefs[k].sector_index) :
        k \in {k \in 1 .. Len(d.sidedefs) : d.sidedefs[k].sector_index >= Len(d.sectors)}}

LinedefViolations(d) ==
    UNION {{Violation(2, 2, k - 1, j, j, "Linedef has invalid sidedef index",
                      d.linedefs[k].sidedef_indices[j].v) :
               j \in {j \in 1 .. 2 : /\ d.linedefs[k].sidedef_indices[j].some
                                     /\ d.linedefs[k].sidedef_indices[j].v >= Len(d.sidedefs)}} :
           k \in 1 .. Len(d.linedefs)}

SegViolations(d) ==
    UNION {{Violation(3, 3, k - 1, 1, 1, "Seg has invalid linedef index",
                      d.gl_segs[k].linedef_index.v) :
               x \in {x \in {1} : /\ d.gl_segs[k].linedef_index.some
                                  /\ d.gl_segs[k].linedef_index.v >= Len(d.linedefs)}}
           \cup {Violation(4, 3, k - 1, j, 1 + j, "Seg has invalid vertex index",
                           d.gl_segs[k].vertex_indices[j].v) :
               j \in {j \in 1 .. 2 :
                        d.gl_segs[k].vertex_indices[j].v >=
                           (IF d.gl_segs[k].vertex_indices[j].gl THEN Len(d.gl_vert)
                            ELSE Len(d.vertexes))}}
           \cup {Violation(5, 3, k - 1, 1, 4, "Seg has invalid partner seg index",
                           d.gl_segs[k].partner_seg_index.v) :
               x \in {x \in {1} : /\ d.gl_segs[k].partner_seg_index.some
                                  /\ d.gl_segs[k].partner_seg_index.v >= Len(d.gl_segs)}} :
           k \in 1 .. Len(d.gl_segs)}

SSectViolations(d) ==
    UNION {{Violation(6, 4, k - 1, 1, 1, "Subsector has invalid first seg index",
                      d.gl_ssect[k].first_seg_index) :
               x \in {x \in {1} : d.gl_ssect[k].first_seg_index >= Len(d.gl_segs)}}
           \cup {Violation(6, 4, k - 1, 2, 2, "Subsector has overflowing seg count",
                           d.gl_ssect[k].seg_count) :
               x \in {x \in {1} : d.gl_ssect[k].first_seg_index + d.gl_ssect[k].seg_count
                                     > Len(d.gl_segs)}} :
           k \in 1 .. Len(d.gl_ssect)}

NodeViolations(d) ==
    UNION {{Violation(7, 5, k - 1, j, j,
                      IF d.gl_nodes[k].child_indices[j].leaf
                      THEN "Node has invalid subsector index"
                      ELSE "Node has invalid child node index",
                      d.gl_nodes[k].child_indices[j].v) :
               j \in {j \in 1 .. 2 :
                        d.gl_nodes[k].child_indices[j].v >=
                           (IF d.gl_nodes[k].child_indices[j].leaf THEN Len(d.gl_ssect)
                            ELSE Len(d.gl_nodes))}} :
           k \in 1 .. Len(d.gl_nodes)}

Violations(d) ==
    SidedefViolations(d) \cup LinedefViolations(d) \cup SegViolations(d)
        \cup SSectViolations(d) \cup NodeViolations(d)

Before(a, b) ==
    \/ a[1] < b[1]
    \/ a[1] = b[1] /\ a[2] < b[2]
    \/ a[1] = b[1] /\ a[2] = b[2] /\ a[3] <= b[3]

\* the violation that comes first kind by kind, and within a kind record by
\* record
FirstByKind(V) ==
    CHOOSE v \in V : \A u \in V : Before(<<v.kind, v.i, v.slot>>, <<u.kind, u.i, u.slot>>)

\* the violation that comes first loop by loop, within a loop record by
\* record, and within a record check by check
FirstByRecord(V) ==
    CHOOSE v \in V : \A u \in V : Before(<<v.loop, v.i, v.step>>, <<u.loop, u.i, u.step>>)

\* the decoded lumps, whatever the validator said about them
Decoded == Decode(lumps)

\* C21: the error of the validator is the first violation in the order all
\* sidedefs, all linedefs (both slots), then seg by seg its linedef, its two
\* vertices and its partner, then subsector by subsector first and
\* first + count, then node by node its children; the message holds the
\* number of the record and the value that is out of range
C21_FirstViolationByRecord ==
    Imported =>
       IF Violations(Decoded) = {}
       THEN imported.ok
       ELSE /\ ~imported.ok
            /\ imported.err = FirstByRecord(Violations(Decoded)).msg

\* a level with a vertex index out of range in one seg and a linedef index
\* out of range in a later seg was rejected for the vertex index
C21_Witness ==
    /\ Imported /\ ~imported.ok
    /\ \E u \in Violations(Decoded), v \in Violations(Decoded) :
          /\ u.kind = 4 /\ v.kind = 3 /\ u.i < v.i
          /\ imported.err = u.msg
          /\ FirstByKind(Violations(Decoded)) = v

(***************************************************************************)
(* Properties of the fold of sidedefs into linedefs                        *)
(***************************************************************************)

\* the linedef slots of decoded level d that hold sidedef index x
Claims(d, x) ==
    {kj \in (1 .. Len(d.linedefs)) \X (1 .. 2) :
        d.linedefs[kj[1]].sidedef_indices[kj[2]] = Some(x)}

\* C22: when build_map has run on MapData the validator accepted and all of
\* whose indices are in bounds, every sidedef was moved into exactly one
\* linedef slot: build_map did not abort on a second take, and the sidedef
\* array it leaves behind holds no sidedef
C22_EachSidedefClaimedOnce ==
    (pc = "done" /\ imported.ok /\ AllInBounds(imported.data)) =>
       /\ built.status # "panic"
       /\ \A x \in 1 .. Len(built.sidedefs) :
             /\ ~built.sidedefs[x].some
             /\ Cardinality(Claims(imported.data, x - 1)) = 1

(***************************************************************************)
(* Properties of the resolution of texture names                           *)
(***************************************************************************)

\* what a name resolves to in a slot with the Sky case: table t is asked for
\* every name but "F_SKY1"
SkySlot(t, name) ==
    IF ~name.some THEN TexNone
    ELSE IF name.v = "F_SKY1" THEN TexSky
    ELSE TexNormal(MapGet(reg.storages[t].names, name.v, NoHandle))

\* what a name resolves to in a slot without the Sky case
PlainSlot(t, name) ==
    IF ~name.some THEN TexNone
    ELSE TexNormal(MapGet(reg.storages[t].names, name.v, NoHandle))

\* the top textures of linedef k of level d are set by the rule for linedefs
\* between two Sky ceilings
BetweenSkies(d, k) ==
    /\ d.linedefs[k].sidedef_indices[1].some
    /\ d.linedefs[k].sidedef_indices[2].some
    /\ SkyCeiling(d, d.sidedefs[d.linedefs[k].sidedef_indices[1].v + 1].sector_index)
    /\ SkyCeiling(d, d.sidedefs[d.linedefs[k].sidedef_indices[2].v + 1].sector_index)

\* the sidedefs of level d with a bottom or middle texture named "F_SKY1"
SkyNamedWalls(d) ==
    {x \in 1 .. Len(d.sidedefs) :
        \/ d.sidedefs[x].bottom_texture_name = [some |-> TRUE, v |-> "F_SKY1"]
        \/ d.sidedefs[x].middle_texture_name = [some |-> TRUE, v |-> "F_SKY1"]}

\* C23: in a built Map the floor and ceiling flat of a sector and the top
\* texture of a sidedef named "F_SKY1" are Sky and no flat of that name is
\* requested; a bottom or middle texture named "F_SKY1" is Normal with the
\* handle of the wall texture of that name; an absent name is None; every
\* other name is Normal with the handle the registry maps the name to
C23_SkyOnlyInThreeSlots ==
    BuiltOk =>
       /\ \A k \in 1 .. Len(imported.data.sectors) :
             /\ built.map.sectors[k].floor_texture
                   = SkySlot("Flat", imported.data.sectors[k].floor_flat_name)
             /\ built.map.sectors[k].ceiling_texture
                   = SkySlot("Flat", imported.data.sectors[k].ceiling_flat_name)
             /\ built.map.sectors[k].floor_texture.kind = "Normal"
                   => built.map.sectors[k].floor_texture.h # NoHandle
       /\ \A k \in 1 .. Len(imported.data.linedefs) : \A j \in 1 .. 2 :
             imported.data.linedefs[k].sidedef_indices[j].some =>
                LET data == imported.data.sidedefs[imported.data.linedefs[k].sidedef_indices[j].v + 1]
                    out == built.map.linedefs[k].sidedefs[j].v
                IN /\ out.bottom_texture = PlainSlot("WallTexture", data.bottom_texture_name)
                   /\ out.middle_texture = PlainSlot("WallTexture", data.middle_texture_name)
                   /\ out.bottom_texture.kind = "Normal" => out.bottom_texture.h # NoHandle
                   /\ out.middle_texture.kind = "Normal" => out.middle_texture.h # NoHandle
                   /\ ~BetweenSkies(imported.data, k)
                         => out.top_texture = SkySlot("WallTexture", data.top_texture_name)
       /\ ~Contains(built.requests, <<"Flat", "F_SKY1">>)
       /\ Contains(built.requests, <<"WallTexture", "F_SKY1">>)
             <=> SkyNamedWalls(imported.data) # {}

\* a Map with a Sky ceiling, with a sidedef whose top texture named "F_SKY1"
\* is Sky on a linedef that is not between two Sky ceilings, and with a
\* sidedef whose bottom or middle texture named "F_SKY1" is Normal
C23_Witness ==
    /\ BuiltOk
    /\ \E k \in 1 .. Len(built.map.sectors) : built.map.sectors[k].ceiling_texture = TexSky
    /\ \E k \in 1 .. Len(imported.data.linedefs) : \E j \in 1 .. 2 :
          /\ ~BetweenSkies(imported.data, k)
          /\ imported.data.linedefs[k].sidedef_indices[j].some
          /\ imported.data.sidedefs[imported.data.linedefs[k].sidedef_indices[j].v + 1]
                .top_texture_name = [some |-> TRUE, v |-> "F_SKY1"]
          /\ built.map.linedefs[k].sidedefs[j].v.top_texture = TexSky
    /\ \E k \in 1 .. Len(imported.data.linedefs) : \E j \in 1 .. 2 :
          /\ imported.data.linedefs[k].sidedef_indices[j].some
          /\ imported.data.linedefs[k].sidedef_indices[j].v + 1 \in SkyNamedWalls(imported.data)
          /\ "Normal" \in {built.map.linedefs[k].sidedefs[j].v.bottom_texture.kind,
                           built.map.linedefs[k].sidedefs[j].v.middle_texture.kind}
          /\ "Sky" \notin {built.map.linedefs[k].sidedefs[j].v.bottom_texture.kind,
                           built.map.linedefs[k].sidedefs[j].v.middle_texture.kind}

\* how often table t was asked for name n during build_map
Requested(t, n) ==
    Cardinality({i \in 1 .. Len(built.requests) : built.requests[i] = <<t, n>>})

\* the names that the flat slots and the wall texture slots of level d carry
\* and that are looked up through a cache
FlatNames(d) ==
    {name.v : name \in {nm \in {d.sectors[k].floor_flat_name : k \in 1 .. Len(d.sectors)}
                                \cup {d.sectors[k].ceiling_flat_name : k \in 1 .. Len(d.sectors)} :
                           nm.some /\ nm.v # "F_SKY1"}}

WallNames(d) ==
    {name.v : name \in {nm \in {d.sidedefs[x].top_texture_name : x \in 1 .. Len(d.sidedefs)} :
                           nm.some /\ nm.v # "F_SKY1"}
                       \cup {nm \in {d.sidedefs[x].bottom_texture_name : x \in 1 .. Len(d.sidedefs)}
                                     \cup {d.sidedefs[x].middle_texture_name : x \in 1 .. Len(d.sidedefs)} :
                                nm.some}}

\* the Normal textures in the flat slots and in the wall slots of the Map
FlatSlots ==
    {tex \in {built.map.sectors[k].floor_texture : k \in 1 .. Len(built.map.sectors)}
             \cup {built.map.sectors[k].ceiling_texture : k \in 1 .. Len(built.map.sectors)} :
        tex.kind = "Normal"}

WallSlots ==
    {tex \in UNION {{built.map.linedefs[k].sidedefs[j].v.top_texture,
                     built.map.linedefs[k].sidedefs[j].v.bottom_texture,
                     built.map.linedefs[k].sidedefs[j].v.middle_texture} :
                        k \in 1 .. Len(built.map.linedefs), j \in 1 .. 2} :
        tex.kind = "Normal"}

\* every slot of one table holds a handle of that table, and slots with the
\* same name hold the same handle
SlotsShareHandles ==
    /\ \A tex \in FlatSlots : owner[tex.h][1] = "Flat"
    /\ \A tex \in WallSlots : owner[tex.h][1] = "WallTexture"
    /\ \A a \in FlatSlots, b \in FlatSlots : owner[a.h] = owner[b.h] => a.h = b.h
    /\ \A a \in WallSlots, b \in WallSlots : owner[a.h] = owner[b.h] => a.h = b.h

\* C24 as claimed: during one build_map no flat name and no wall texture name
\* is requested from the registry more than once, and slots with the same
\* name hold the same handle
C24_EachNameRequestedOnce ==
    BuiltOk =>
       /\ \A n \in FlatNames(imported.data) : Requested("Flat", n) = 1
       /\ \A n \in WallNames(imported.data) \cup {SkyName} : Requested("WallTexture", n) = 1
       /\ SlotsShareHandles

\* C24: during one build_map every flat name and every wall texture name of
\* a slot is requested from the registry once, through the cache of its
\* table, and slots with the same name hold the same handle; the name of the
\* sky texture is requested once more, before the caches are used
C24_EachNameCachedOnce ==
    BuiltOk =>
       /\ \A n \in FlatNames(imported.data) : Requested("Flat", n) = 1
       /\ \A n \in WallNames(imported.data) \cup {SkyName} :
             Requested("WallTexture", n) =
                (IF n = SkyName /\ n \in WallNames(imported.data) THEN 2 ELSE 1)
       /\ Len(built.requests) = 1 + Cardinality(FlatNames(imported.data))
                                  + Cardinality(WallNames(imported.data))
       /\ SlotsShareHandles

\* a Map in which one name is both a flat and a wall texture, with different
\* handles, and in which two wall slots of different sidedefs share a handle
C24_Witness ==
    /\ BuiltOk
    /\ FlatNames(imported.data) \cap WallNames(imported.data) # {}
    /\ \E a \in FlatSlots, b \in WallSlots : owner[a.h][2] = owner[b.h][2] /\ a.h # b.h
    /\ \E k \in 1 .. Len(built.map.linedefs), m \in 1 .. Len(built.map.linedefs) :
          /\ k # m
          /\ built.map.linedefs[k].sidedefs[1].some /\ built.map.linedefs[m].sidedefs[1].some
          /\ \E a \in {built.map.linedefs[k].sidedefs[1].v.top_texture,
                       built.map.linedefs[k].sidedefs[1].v.bottom_texture} :
                /\ a.kind = "Normal"
                /\ a \in {built.map.linedefs[m].sidedefs[1].v.top_texture,
                          built.map.linedefs[m].sidedefs[1].v.bottom_texture}

(***************************************************************************)
(* Properties of the value table                                           *)
(***************************************************************************)

\* C25: every handle of an iteration list has a value in the table of its
\* type, so that iter aborts for an unregistered type only, and a handle for
\* which get returned a value keeps a value in every later state
C25_ListedHandlesHaveValues ==
    [][/\ \A t \in DOMAIN reg'.storages :
             \A i \in 1 .. Len(reg'.storages[t].handles) :
                get(reg', arcs', t, reg'.storages[t].handles[i]) # NoValue
       /\ (aborted' /\ ~aborted /\ ret'.op = "iter") => ~Registered(ret'.t)
       /\ \A h \in 1 .. Len(arcs) :
             (Registered(owner[h][1]) /\ get(reg, arcs, owner[h][1], h) # NoValue)
                => get(reg', arcs', owner[h][1], h) # NoValue]_vars

\* an iteration list holds an entry that was inserted and an entry that was
\* built, in this order, when build_waiting has returned
C25_Witness ==
    /\ stack = <<>> /\ ret.op = "build_ok"
    /\ \E t \in DOMAIN reg.storages :
          /\ Len(reg.storages[t].handles) = 2
          /\ Has(log, reg.storages[t].handles[1], "insert")
          /\ Has(log, reg.storages[t].handles[2], "ok")
          /\ get(reg, arcs, t, reg.storages[t].handles[2]) = Built(owner[reg.storages[t].handles[2]][2])

(***************************************************************************)
(* Properties of load called from build_func                               *)
(***************************************************************************)

\* the innermost running build_waiting
Top == stack[Len(stack)]

\* this step is a load, from build_func, of the name of the entry that the
\* innermost build_waiting of the same type is building
LoadsOwnName ==
    /\ stack # <<>>
    /\ ret' # ret /\ ret'.op = "load"
    /\ ret'.t = Top.t /\ ret'.n = Top.cur.name

\* the entries of the type of the innermost build_waiting that were loaded
\* and never reached by a loop, and that no running build_waiting has taken
LoadedAside ==
    {h \in 1 .. Len(arcs) :
        /\ owner[h][1] = Top.t
        /\ Has(log, h, "load")
        /\ Processed(log', h) = {}
        /\ \A i \in 1 .. Len(stack) : h \notin FrameStrong(stack[i])}

\* C26: a load from build_func of the name of the entry being built returns
\* the handle of that entry and queues nothing; a running build_waiting goes
\* on with entries of the batch it took only, and when it returns, the
\* entries that were loaded while it ran and that no nested build_waiting
\* reached are in the queue, without a value unless insert_with_name stored
\* one for their name
C26_DrainIgnoresNewEntries ==
    [][/\ LoadsOwnName =>
             /\ ret'.h = Top.cur.handle
             /\ ~ret'.decoded
             /\ reg' = reg /\ arcs' = arcs /\ stack' = stack
       /\ (stack # <<>> /\ Len(stack') = Len(stack) /\ stack' # stack) =>
             /\ \E k \in 1 .. Len(Top.batch) : stack'[Len(stack')].cur = Top.batch[k]
             /\ stack'[Len(stack')].batch = Top.batch
       /\ Len(stack') < Len(stack) =>
             \A h \in LoadedAside :
                /\ h \in {e.handle : e \in Range(reg'.storages[Top.t].unbuilt)}
                /\ named[owner[h][1], owner[h][2]] # h
                      => get(reg', arcs', Top.t, h) = NoValue]_vars

\* build_func loaded a new name of the type that was being drained, the
\* build_waiting returned, and the new entry is pending and has no value
C26_Witness ==
    /\ stack = <<>>
    /\ \E a \in 1 .. Len(arcs), b \in 1 .. Len(arcs) :
          /\ owner[a][1] = owner[b][1] /\ owner[a][2] # owner[b][2]
          /\ log = <<[h |-> a, what |-> "load"], [h |-> a, what |-> "call"],
                     [h |-> b, what |-> "load"], [h |-> a, what |-> "ok"]>>
          /\ reg.storages[owner[b][1]].unbuilt # <<>>
          /\ reg.storages[owner[b][1]].unbuilt[1].handle = b
          /\ get(reg, arcs, owner[b][1], b) = NoValue
          /\ get(reg, arcs, owner[a][1], a) # NoValue

\* build_func loaded the name of the entry being built and got its handle
C26_WitnessOwnName ==
    /\ stack # <<>>
    /\ ret.op = "load" /\ ret.t = Top.t /\ ret.n = Top.cur.name
    /\ ret.h = Top.cur.handle
    /\ reg.storages[Top.t].unbuilt = <<>>

(***************************************************************************)
(* Properties of insert_with_name on a pending name                        *)
(***************************************************************************)

\* the allocations whose pending entry is in a queue or in a running loop
PendingHandles ==
    {h \in 1 .. Len(arcs) :
        \/ \E t \in DOMAIN reg.storages :
              h \in {e.handle : e \in Range(reg.storages[t].unbuilt)}
        \/ \E i \in 1 .. Len(stack) : h \in FrameStrong(stack[i])}

\* the events this step adds to the log
NewEvents == {log'[i] : i \in (Len(log) + 1) .. Len(log')}

\* how often handle h is in the iteration list of its type in registry r
Listed(r, h) ==
    Cardinality({k \in 1 .. Len(r.storages[owner[h][1]].handles) :
                    r.storages[owner[h][1]].handles[k] = h})

\* insert_with_name stored a value for the pending entry of allocation h
NamedWhilePending(h) ==
    /\ Has(log, h, "load")
    /\ named[owner[h][1], owner[h][2]] = h

\* C27: insert_with_name(n, v) called while an entry for n is pending returns
\* the handle of that entry, makes v the value of the handle and leaves the
\* iteration list as it was; when the entry is built later the built value
\* replaces v and the handle is appended to the iteration list, where it then
\* is once; when the entry fails later the value stays under the handle and
\* the name, and the handle stays out of the iteration list
C27_InsertOnPendingName ==
    [][/\ \A t \in Types, n \in Names :
             (InsertWithNameStep(t, n) /\ \E h \in PendingHandles : owner[h] = <<t, n>>) =>
                /\ ret'.h \in PendingHandles /\ owner[ret'.h] = <<t, n>>
                /\ arcs' = arcs
                /\ get(reg', arcs', t, ret'.h) = ret'.v
                /\ reg'.storages[t].handles = reg.storages[t].handles
                /\ reg'.storages[t].unbuilt = reg.storages[t].unbuilt
       /\ \A h \in 1 .. Len(arcs) :
             NamedWhilePending(h) =>
                /\ [h |-> h, what |-> "ok"] \in NewEvents =>
                      /\ get(reg, arcs, owner[h][1], h) \in Given
                      /\ get(reg', arcs', owner[h][1], h) = Built(owner[h][2])
                      /\ Listed(reg, h) = 0
                      /\ Listed(reg', h) = 1
                /\ ([h |-> h, what |-> "err"] \in NewEvents
                      \/ [h |-> h, what |-> "skip"] \in NewEvents) =>
                      /\ get(reg, arcs, owner[h][1], h) \in Given
                      /\ get(reg', arcs', owner[h][1], h) = get(reg, arcs, owner[h][1], h)
                      /\ h \in Strong(reg', held', stack') =>
                            get_by_name(reg', arcs', owner[h][1], owner[h][2],
                                        Strong(reg', held', stack'))
                               = get(reg, arcs, owner[h][1], h)
                      /\ Listed(reg', h) = 0]_vars

\* a value was inserted under a pending name and the entry was then built:
\* the handle has the built value and is in the iteration list
C27_Witness ==
    \E h \in 1 .. Len(arcs) :
       /\ NamedWhilePending(h)
       /\ ret.op = "build_ok" /\ ret.h = h
       /\ get(reg, arcs, owner[h][1], h) = Built(owner[h][2])
       /\ Listed(reg, h) = 1

\* a value was inserted under a pending name and the entry then failed: the
\* value is found by handle and by name, the iteration list is empty
C27_WitnessFailed ==
    \E h \in Live :
       /\ NamedWhilePending(h)
       /\ ret.op = "build_err" /\ ret.h = h
       /\ get(reg, arcs, owner[h][1], h) \in Given
       /\ get_by_name(reg, arcs, owner[h][1], owner[h][2], Live) \in Given
       /\ reg.storages[owner[h][1]].handles = <<>>

\* insert_with_name returned the handle of an entry that is in the queue
C27_WitnessPending ==
    /\ ret.op = "insert_with_name" /\ ~aborted
    /\ \E k \in 1 .. Len(reg.storages[ret.t].unbuilt) :
          reg.storages[ret.t].unbuilt[k].handle = ret.h
    /\ get(reg, arcs, ret.t, ret.h) = ret.v
    /\ reg.storages[ret.t].handles = <<>>

(***************************************************************************)
(* Properties of the sectors' subsector lists                              *)
(***************************************************************************)

\* the positions of subsector index i in the subsector list of sector s
ListedAt(m, s, i) ==
    {k \in 1 .. Len(m.sectors[s].subsectors) : m.sectors[s].subsectors[k] = i}

\* C28: in a Map that build_map returned, subsector i is in the list of
\* sector s exactly when s is the owning sector index of subsector i, it is
\* there once and in no other list, and every list is in ascending order
C28_SubsectorListsPartition ==
    BuiltOk =>
       /\ \A s \in 1 .. Len(built.map.sectors) :
             /\ \A i \in 1 .. Len(built.map.subsectors) :
                   /\ ListedAt(built.map, s, i - 1) # {}
                         <=> built.map.subsectors[i].sector_index = s - 1
                   /\ Cardinality(ListedAt(built.map, s, i - 1)) <= 1
             /\ \A k \in 1 .. Len(built.map.sectors[s].subsectors) :
                   /\ built.map.sectors[s].subsectors[k] \in 0 .. (Len(built.map.subsectors) - 1)
                   /\ k > 1 => built.map.sectors[s].subsectors[k - 1]
                                  < built.map.sectors[s].subsectors[k]
       /\ \A i \in 1 .. Len(built.map.subsectors) :
             Cardinality({s \in 1 .. Len(built.map.sectors) :
                             ListedAt(built.map, s, i - 1) # {}}) = 1

\* a Map of several sectors in which one sector owns both subsectors, in
\* ascending order, and another sector owns none
C28_Witness ==
    /\ BuiltOk
    /\ \E s \in 1 .. Len(built.map.sectors), u \in 1 .. Len(built.map.sectors) :
          /\ built.map.sectors[s].subsectors = <<0, 1>>
          /\ built.map.sectors[u].subsectors = <<>>
          /\ \A i \in 1 .. Len(built.map.subsectors) :
                built.map.subsectors[i].sector_index = s - 1

\* a Map in which two sectors own one subsector each
C28_WitnessTwoSectors ==
    /\ BuiltOk
    /\ \E s \in 1 .. Len(built.map.sectors), u \in 1 .. Len(built.map.sectors) :
          /\ s # u
          /\ Len(built.map.sectors[s].subsectors) = 1
          /\ Len(built.map.sectors[u].subsectors) = 1
          /\ built.map.sectors[s].subsectors # built.map.sectors[u].subsectors

(***************************************************************************)
(* Properties of load after a failed build                                 *)
(***************************************************************************)

\* the allocations made by load(t, n) whose pending entry failed
FailedEntries(t, n) == {h \in 1 .. Len(arcs) : owner[h] = <<t, n>> /\ Failed(h)}

\* C29: a load of a name whose pending entry failed returns the handle of the
\* failed entry, without decoding, allocating or queueing, while a strong
\* handle of that entry survives; when none survives and no other entry was
\* made for the name since, it allocates a handle with an id that no earlier
\* handle had, decodes again and queues one new pending entry; a failed entry
\* is never queued, decoded or built again
C29_LoadAfterFailure ==
    [][/\ \A t \in Types, n \in Names :
             (LoadStep(t, n) /\ FailedEntries(t, n) # {}) =>
                IF FailedEntries(t, n) \cap Live # {}
                THEN /\ ret'.h \in FailedEntries(t, n) \cap Live
                     /\ ~ret'.decoded
                     /\ arcs' = arcs
                     /\ reg' = reg
                ELSE LiveEntries(t, n) = {} =>
                        /\ ret'.decoded
                        /\ ret'.h = Len(arcs) + 1
                        /\ Len(arcs') = Len(arcs) + 1
                        /\ \A h \in 1 .. Len(arcs) : arcs'[ret'.h] # arcs[h]
                        /\ Len(reg'.storages[t].unbuilt) = Len(reg.storages[t].unbuilt) + 1
                        /\ reg'.storages[t].unbuilt[Len(reg'.storages[t].unbuilt)].handle = ret'.h
                        /\ reg'.storages[t].unbuilt[Len(reg'.storages[t].unbuilt)].name = n
       /\ \A h \in 1 .. Len(arcs) :
             Failed(h) =>
                /\ \A e \in NewEvents : e.h # h
                /\ h \notin PendingHandles']_vars

\* the entry of a name failed, its last strong handle was dropped, and a load
\* of the name then decoded again and returned a handle with a new id
C29_Witness ==
    /\ ret.op = "load" /\ ret.decoded /\ ~aborted
    /\ \E h \in FailedEntries(ret.t, ret.n) :
          /\ h \notin Live
          /\ ret.h # h
          /\ arcs[ret.h] > arcs[h]
    /\ reg.storages[ret.t].unbuilt # <<>>
    /\ reg.storages[ret.t].unbuilt[Len(reg.storages[ret.t].unbuilt)].handle = ret.h

\* the entry of a name failed and a load of the name, made while the caller
\* still held the handle, returned that handle and queued nothing
C29_WitnessSurvives ==
    /\ ret.op = "load" /\ ~ret.decoded /\ ~aborted
    /\ ret.h \in FailedEntries(ret.t, ret.n) \cap Live
    /\ stack = <<>>
    /\ reg.storages[ret.t].unbuilt = <<>>
    /\ Len(arcs) = 1

(***************************************************************************)
(* Properties of add_storage for a type that has a table                   *)
(***************************************************************************)

\* this step is a call of add_storage for type t, which had a table
AddStorageAgain(t) ==
    /\ Registered(t)
    /\ ret'.op = "add_storage" /\ ret'.t = t
    /\ <<reg, ret>> # <<reg', ret'>>

\* C30: add_storage for a type that has a table leaves the type with an empty
\* table: no values, an empty iteration list, an empty name map and an empty
\* queue, so that get returns absent for every handle made before; the
\* tables of the other types and the id allocator are as before; and the ids
\* of all handles, whenever issued, stay pairwise distinct
C30_AddStorageReplacesTable ==
    [][/\ \A t \in Types :
             AddStorageAgain(t) =>
                /\ reg'.storages[t].assets = AssetStorageTyped.assets
                /\ reg'.storages[t].handles = <<>>
                /\ reg'.storages[t].names = AssetStorageTyped.names
                /\ reg'.storages[t].unbuilt = <<>>
                /\ iter(reg', arcs', t) = <<>>
                /\ \A h \in 1 .. Len(arcs) : get(reg', arcs', t, h) = NoValue
                /\ \A n \in Names :
                      /\ handle_for(reg', t, n, Strong(reg', held', stack')) = NoHandle
                      /\ get_by_name(reg', arcs', t, n, Strong(reg', held', stack')) = NoValue
                /\ DOMAIN reg'.storages = DOMAIN reg.storages
                /\ \A u \in DOMAIN reg.storages \ {t} : reg'.storages[u] = reg.storages[u]
                /\ reg'.handle_allocator = reg.handle_allocator
                /\ arcs' = arcs
       /\ \A i \in 1 .. Len(arcs'), j \in 1 .. Len(arcs') : i < j => arcs'[i] < arcs'[j]]_vars

\* add_storage was called for a type whose table held a built value, a named
\* entry and a handle the caller still has, and a handle was issued afterwards
C30_Witness ==
    /\ Len(arcs) = 2
    /\ log = <<[h |-> 1, what |-> "insert_with_name"], [h |-> 2, what |-> "insert"]>>
    /\ 1 \in held
    /\ owner[1][1] = owner[2][1]
    /\ get(reg, arcs, owner[1][1], 1) = NoValue
    /\ get(reg, arcs, owner[2][1], 2) # NoValue
    /\ reg.storages[owner[1][1]].handles = <<2>>
    /\ arcs[2] > arcs[1]

\* add_storage was called while the queue of the type held a pending entry:
\* the queue is empty and the allocator remembers the id it issued
C30_WitnessQueue ==
    /\ ret.op = "add_storage" /\ Registered(ret.t)
    /\ \E h \in held :
          /\ owner[h][1] = ret.t
          /\ Has(log, h, "load")
          /\ Processed(log, h) = {}
          /\ \A i \in 1 .. Len(stack) : h \notin FrameStrong(stack[i])
    /\ reg.storages[ret.t].unbuilt = <<>>
    /\ reg.handle_allocator.highest_id >= 1

====
